---------------------------- MODULE Spec2Model ----------------------------
(***************************************************************************)
(* A model of the Cythonic parser-evaluator (src/src/Cythonic.c): the      *)
(* token stream with its save/rewind cursor, the Environment, and the      *)
(* recursive-descent grammar walker that evaluates while it parses.        *)
(*                                                                         *)
(* Every C function that takes a Parser* becomes an operator from a parser *)
(* record to the parser record after the call.  A function that returns a  *)
(* Value leaves it in the field val of the record it returns.  A function  *)
(* that calls statement() is cut at those calls: its activation is a frame *)
(* on stack, and one step runs it from one call of statement() to the      *)
(* next.                                                                   *)
(***************************************************************************)
EXTENDS Integers, Sequences, FiniteSets, TLC

VARIABLES
    token_list,   \* TokenList.tokens[0 .. count-1], a sequence (index 0 is token_list[1])
    parser,       \* the Parser structure, plus the output written so far
    stack,        \* the C call stack: the activations that are inside a call of statement()
    pc,           \* "start", "running", "done", "hung", "crashed", "cut"; scanner: "scanning", "written", "read"
    undef,        \* the value an indeterminate (never initialised) union member reads as
    hist,         \* what the calls made so far were (used by the specifications of calls)
    lexer,        \* the Lexer structure
    symbol_table  \* the lines of the symbol table file

vars == <<token_list, parser, stack, pc, undef, hist, lexer, symbol_table>>

-----------------------------------------------------------------------------
(* Bounds of the model. *)

\* largest loop bound N of the generated loop programs
MaxN == 3
\* largest magnitude of an integer operand drawn for arithmetic
MaxA == 5
\* largest loop bound M of the loop nested in another one
MaxM == 1
\* number of loop iterations one run may perform before the exploration is cut
MaxIter == 12
\* longest stream of arbitrary tokens
MaxJunk == 2
\* largest number of calls of advance counted after a call of jump_to
MaxK == 4

\* characters of a scanned text
MaxSrc == 4

-----------------------------------------------------------------------------
(* Tokens.  Only the fields the parser reads are kept: type and lexeme.    *)

(* A lexeme is a sequence of one-character strings, as the scanner stores   *)
(* it: lower case for words, the literal's text for a literal.             *)

Tok(type, lexeme) == [type |-> type, lexeme |-> lexeme]

\* create_token(TOKEN_EOF, "", "", 0, 0)
EOFToken == Tok("TOKEN_EOF", << >>)

\* the token parser_create leaves in current_token and previous_token
\* (type INVALID, lexeme NULL)
NoToken == Tok("INVALID", << >>)

\* the texts statement() and the declarations compare a lexeme with (strcmp)
W_str == <<"s", "t", "r">>
W_its == <<"i", "t", "s">>
W_at == <<"a", "t">>
W_then == <<"t", "h", "e", "n">>
W_while == <<"w", "h", "i", "l", "e">>
W_for == <<"f", "o", "r">>
W_foreach == <<"f", "o", "r", "e", "a", "c", "h">>
W_if == <<"i", "f">>
W_else == <<"e", "l", "s", "e">>
W_return == <<"r", "e", "t", "u", "r", "n">>
W_input == <<"i", "n", "p", "u", "t">>
W_print == <<"p", "r", "i", "n", "t">>
W_let == <<"l", "e", "t">>
W_set == <<"s", "e", "t">>
W_var == <<"v", "a", "r">>
W_const == <<"c", "o", "n", "s", "t">>
W_dyn == <<"d", "y", "n">>
W_in == <<"i", "n">>
W_rdo == <<"r", "d", "o">>
W_true == <<"t", "r", "u", "e">>

Digits == <<"0", "1", "2", "3", "4", "5", "6", "7", "8", "9">>

\* the decimal text of n
RECURSIVE itoa(_)
itoa(n) == IF n < 10 THEN <<Digits[n + 1]>> ELSE itoa(n \div 10) \o <<Digits[(n % 10) + 1]>>

is_digit(c) == \E d \in 1..10 : Digits[d] = c

digit_value(c) == (CHOOSE d \in 1..10 : Digits[d] = c) - 1

\* atoi on a lexeme: the value of its leading run of digits
RECURSIVE atoi_from(_, _, _)
atoi_from(s, i, acc) ==
    IF i <= Len(s) /\ is_digit(s[i])
    THEN atoi_from(s, i + 1, acc * 10 + digit_value(s[i]))
    ELSE acc

atoi(s) == atoi_from(s, 1, 0)

\* strchr(lexeme, c) != NULL
has_char(s, c) == \E i \in 1..Len(s) : s[i] = c

-----------------------------------------------------------------------------
(* Values.  The payload v holds as.int_val for an Int, 0/1 for a Bool and  *)
(* the text for a String or Char.  make_void and make_null set the type    *)
(* only, so the payload of such a Value is indeterminate.                  *)

make_int(v) == [type |-> "VAL_INT", v |-> v]
make_double(v) == [type |-> "VAL_DOUBLE", v |-> v]
make_bool(b) == [type |-> "VAL_BOOL", v |-> IF b THEN 1 ELSE 0]
make_string(s) == [type |-> "VAL_STRING", v |-> s]
make_char(c) == [type |-> "VAL_CHAR", v |-> c]
make_void == [type |-> "VAL_VOID", v |-> undef]
make_null == [type |-> "VAL_NULL", v |-> undef]

\* v.as.int_val: defined for an Int only, anything else reads other bytes
int_val(x) == IF x.type = "VAL_INT" THEN x.v ELSE undef

\* (a.type == VAL_INT) ? (double)a.as.int_val : a.as.double_val
double_val(x) == IF x.type \in {"VAL_INT", "VAL_DOUBLE"} THEN x.v ELSE undef

\* (cond.type == VAL_BOOL) ? cond.as.bool_val : (cond.as.int_val != 0)
truthy(x) == IF x.type = "VAL_BOOL" THEN x.v = 1 ELSE int_val(x) # 0

\* C integer division and remainder truncate towards zero
c_div(a, b) ==
    IF (a >= 0) = (b >= 0)
    THEN (IF a >= 0 THEN a ELSE -a) \div (IF b >= 0 THEN b ELSE -b)
    ELSE -((IF a >= 0 THEN a ELSE -a) \div (IF b >= 0 THEN b ELSE -b))

c_rem(a, b) == a - b * c_div(a, b)

val_add(a, b) ==
    IF a.type = "VAL_INT" /\ b.type = "VAL_INT" THEN make_int(a.v + b.v)
    ELSE IF a.type = "VAL_DOUBLE" \/ b.type = "VAL_DOUBLE"
         THEN make_double(double_val(a) + double_val(b))
         ELSE make_int(0)

val_sub(a, b) ==
    IF a.type = "VAL_INT" /\ b.type = "VAL_INT" THEN make_int(a.v - b.v)
    ELSE make_double(double_val(a) - double_val(b))

val_mul_mut(a, b) ==
    IF a.type = "VAL_INT" /\ b.type = "VAL_INT" THEN make_int(a.v + b.v)
    ELSE make_double(double_val(a) + double_val(b))

val_mul(a, b) ==
    IF a.type = "VAL_INT" /\ b.type = "VAL_INT" THEN make_int(a.v * b.v)
    ELSE make_double(double_val(a) * double_val(b))

\* the quotient of two doubles is kept only when it is a whole number
val_div_nonzero(a, b) ==
    IF a.type = "VAL_INT" /\ b.type = "VAL_INT" THEN make_int(c_div(a.v, b.v))
    ELSE make_double(c_div(double_val(a), double_val(b)))

\* a faulty val_div: the dividend instead of the sentinel for a zero divisor
val_div_mut(a, b) ==
    IF double_val(b) = 0 THEN make_int(a.v)
    ELSE val_div_nonzero(a, b)

val_div(a, b) ==
    IF double_val(b) = 0 THEN make_int(0)
    ELSE val_div_nonzero(a, b)

-----------------------------------------------------------------------------
(* Environment: the linked list as a sequence, head of the list first.     *)

env_create == << >>

\* position of the first binding called name, 0 when there is none
env_find(env, name) ==
    IF \E i \in 1..Len(env) : env[i].name = name
    THEN CHOOSE i \in 1..Len(env) :
            /\ env[i].name = name
            /\ \A j \in 1..(i - 1) : env[j].name # name
    ELSE 0

\* a faulty env_define: no search, always a new binding at the head
env_define_mut(env, name, value, is_const) ==
    <<[name |-> name, value |-> value, is_const |-> is_const]>> \o env

env_define(env, name, value, is_const) ==
    LET i == env_find(env, name)
    IN  IF i # 0
        THEN [env EXCEPT ![i] = [name |-> name, value |-> value, is_const |-> is_const]]
        ELSE <<[name |-> name, value |-> value, is_const |-> is_const]>> \o env

\* an env_assign that binds a name it does not find
env_assign_mut(env, name, value) ==
    LET i == env_find(env, name)
    IN  IF i = 0
        THEN [ok |-> TRUE,
              env |-> <<[name |-> name, value |-> value, is_const |-> FALSE]>> \o env]
        ELSE IF env[i].is_const THEN [ok |-> FALSE, env |-> env]
        ELSE [ok |-> TRUE, env |-> [env EXCEPT ![i].value = value]]

\* env_assign returns [ok, env]: ok is the bool the C function returns
env_assign(env, name, value) ==
    LET i == env_find(env, name)
    IN  IF i = 0 THEN [ok |-> FALSE, env |-> env]
        ELSE IF env[i].is_const THEN [ok |-> FALSE, env |-> env]
        ELSE [ok |-> TRUE, env |-> [env EXCEPT ![i].value = value]]

\* an env_get that clears out when the name is absent
env_get_mut(env, name, out) ==
    LET i == env_find(env, name)
    IN  IF i = 0 THEN [ok |-> FALSE, out |-> make_null]
        ELSE [ok |-> TRUE, out |-> env[i].value]

\* env_get returns [ok, out]: out keeps its old value when the name is absent
env_get(env, name, out) ==
    LET i == env_find(env, name)
    IN  IF i = 0 THEN [ok |-> FALSE, out |-> out]
        ELSE [ok |-> TRUE, out |-> env[i].value]

-----------------------------------------------------------------------------
(* The Parser structure.  Beside the C fields the record holds what the    *)
(* run has written (trace_nodes, trace_tokens, errors, effects), the       *)
(* number of calls of synchronize that have returned (synchronized), the   *)
(* return value of the last Value-returning call (val), and how the run    *)
(* ended when it did not return: hung (a loop that repeats its own state), *)
(* ub (an operation whose behaviour C leaves undefined) and cut (the model *)
(* stopped after MaxIter loop iterations).  traps says what the machine    *)
(* does with an int division whose divisor is 0: raise a signal that ends  *)
(* the process (x86), or go on with some value (ARM).                      *)

count == Len(token_list)

\* parser->token_list->tokens[i]
token_at(i) == token_list[i + 1]

Stopped(p) == p.hung \/ p.ub \/ p.cut

\* the fields of the C structure that decide what the parser does next
MachineState(p) ==
    <<p.current_index, p.current_token, p.next_token, p.previous_token,
      p.panic_mode, p.indent_level, p.env, p.executing, p.trace_parse, p.last_id>>

ret(p, v) == [p EXCEPT !.val = v]

print_indent(p) == p

enter_node(p, name) ==
    [p EXCEPT !.trace_nodes = IF p.output_file /\ p.trace_parse THEN @ + 1 ELSE @,
              !.indent_level = @ + 1]

exit_node(p, name) ==
    [p EXCEPT !.indent_level = @ - 1,
              !.trace_nodes = IF p.output_file /\ p.trace_parse THEN @ + 1 ELSE @]

\* a faulty error_at: reports although panic_mode is set
error_at_mut(p, token, message) ==
    [p EXCEPT !.panic_mode = TRUE,
              !.had_error = TRUE,
              !.errors = Append(@, [message |-> message, at |-> token.type])]

error_at(p, token, message) ==
    IF p.panic_mode THEN p
    ELSE [p EXCEPT !.panic_mode = TRUE,
                   !.had_error = TRUE,
                   !.errors = Append(@, [message |-> message, at |-> token.type])]

error(p, message) == error_at(p, p.current_token, message)

advance(p) ==
    LET cur == p.next_token
        more == cur.type # "TOKEN_EOF" /\ p.current_index < count
    IN  [p EXCEPT !.previous_token = p.current_token,
                  !.current_token = cur,
                  !.next_token = IF more THEN token_at(p.current_index) ELSE EOFToken,
                  !.current_index = IF more THEN @ + 1 ELSE @,
                  !.trace_tokens = IF p.output_file /\ p.trace_parse THEN @ + 1 ELSE @]

\* the structure parser_create fills in, before it primes the lookahead
parser_new ==
    [current_index |-> 0, current_token |-> NoToken, next_token |-> NoToken,
     previous_token |-> NoToken, has_next_token |-> FALSE,
     had_error |-> FALSE, panic_mode |-> FALSE, indent_level |-> 0,
     output_file |-> FALSE, env |-> env_create, executing |-> TRUE,
     trace_parse |-> TRUE, last_id |-> << >>, stdin |-> << >>,
     trace_nodes |-> 0, trace_tokens |-> 0,
     errors |-> << >>, effects |-> << >>, val |-> make_int(0),
     hung |-> FALSE, ub |-> FALSE, cut |-> FALSE, iterations |-> 0, traps |-> TRUE,
     synchronized |-> 0]

parser_create ==
    advance([parser_new EXCEPT
                !.next_token = IF count > 0 THEN token_at(0) ELSE EOFToken,
                !.current_index = IF count > 0 THEN 1 ELSE 0,
                !.has_next_token = TRUE])

check(p, type) == p.current_token.type = type

\* match(p, type) is check(p, type) followed by advance(p) when it holds

consume(p, type, message) ==
    IF check(p, type) THEN advance(p) ELSE error(p, message)

RECURSIVE synchronize_loop(_)
synchronize_loop(p) ==
    IF p.current_token.type = "TOKEN_EOF" THEN p
    ELSE IF p.current_token.type = "SEMICOLON" THEN advance(p)
    ELSE IF p.current_token.type \in {"KEYWORD", "RESERVED_WORD", "TYPE"} THEN p
    ELSE synchronize_loop(advance(p))

\* a synchronize that leaves panic_mode as it is
synchronize_mut(p) == [synchronize_loop(p) EXCEPT !.synchronized = @ + 1]

synchronize(p) ==
    [synchronize_loop([p EXCEPT !.panic_mode = FALSE]) EXCEPT !.synchronized = @ + 1]

\* a faulty jump_to: one token too far
jump_to_mut(p, token_index) ==
    advance([p EXCEPT !.current_index = token_index + 2,
                      !.next_token = IF token_index + 1 < count
                                     THEN token_at(token_index + 1) ELSE EOFToken])

\* jump_to reads tokens[token_index]: an index below 0 is outside the array
jump_to(p, token_index) ==
    IF token_index < 0
    THEN [p EXCEPT !.ub = TRUE]
    ELSE advance([p EXCEPT !.current_index = IF token_index < count
                                              THEN token_index + 1 ELSE token_index,
                          !.next_token = IF token_index < count
                                         THEN token_at(token_index) ELSE EOFToken])

-----------------------------------------------------------------------------
(* Side effects: a call of env_define, of env_assign or of printf by the   *)
(* evaluator.  Each one that changes the Environment or writes to stdout   *)
(* is appended to effects with the value of executing at that moment.      *)

Effect(p, kind, name, value) ==
    [kind |-> kind, name |-> name, value |-> value, executing |-> p.executing]

do_define(p, name, value, is_const) ==
    [p EXCEPT !.env = env_define(@, name, value, is_const),
              !.effects = Append(@, Effect(p, "define", name, value))]

do_assign(p, name, value) ==
    LET r == env_assign(p.env, name, value)
    IN  IF r.ok
        THEN [p EXCEPT !.env = r.env,
                       !.effects = Append(@, Effect(p, "assign", name, value))]
        ELSE p

do_print(p, value) ==
    [p EXCEPT !.effects = Append(@, Effect(p, "print", << >>, value))]

-----------------------------------------------------------------------------
(* Expressions.  The Value a function returns is the field val of the      *)
(* parser it returns; enter_node, exit_node, advance and consume leave val *)
(* alone.  A function that reads its first operand and then loops over     *)
(* "operator operand" is written as X_operand (read one operand) and       *)
(* X_fold (fold it into the value so far, look for another operator): op   *)
(* is NoOp for the first operand.                                          *)

RECURSIVE expression(_), postfix(_), unary(_)

NoOp == "none"

\* the Value of a NUMBER lexeme: atof when it has a '.' or an 'e', else atoi
\* (atof is modelled on its integer part)
number_value(lexeme) ==
    IF has_char(lexeme, ".") \/ has_char(lexeme, "e")
    THEN make_double(atoi(lexeme))
    ELSE make_int(atoi(lexeme))

\* Value v = make_int(0); if (parser->executing) env_get(env, lexeme, &v);
name_value(p, lexeme) ==
    IF p.executing THEN env_get(p.env, lexeme, make_int(0)).out ELSE make_int(0)

\* the Value of the literal or name just matched (previous_token)
primary_value(p) ==
    LET type == p.previous_token.type
        lexeme == p.previous_token.lexeme
    IN  IF type = "NUMBER" THEN number_value(lexeme)
        ELSE IF type = "STRING_LITERAL" THEN make_string(lexeme)
        ELSE IF type = "CHAR_LITERAL"
             THEN make_char(IF Len(lexeme) > 0 THEN <<lexeme[1]>> ELSE << >>)
        ELSE IF type = "BOOLEAN_LITERAL" THEN make_bool(lexeme = W_true)
        ELSE name_value(p, lexeme)

\* strncpy(parser->last_id, parser->previous_token.lexeme, 63) after a name
primary_name(p) ==
    IF p.previous_token.type \in {"IDENTIFIER", "KEYWORD"}
    THEN [p EXCEPT !.last_id = p.previous_token.lexeme]
    ELSE p

\* the branch of primary() after match() of a literal or a name
primary_matched(p) == exit_node(ret(primary_name(p), primary_value(p)), "Primary")

primary(p) ==
    LET p0 == enter_node(p, "Primary")
    IN  IF p0.current_token.type \in {"NUMBER", "STRING_LITERAL", "CHAR_LITERAL",
                                      "BOOLEAN_LITERAL", "IDENTIFIER", "KEYWORD"}
        THEN primary_matched(advance(p0))
        ELSE IF check(p0, "LEFT_PAREN")
        THEN exit_node(consume(expression(advance(p0)), "RIGHT_PAREN",
                               "Expect ')' after expression."), "Primary")
        ELSE exit_node(ret(error(p0, "Expect expression."), make_null), "Primary")

\* if (executing) { v = v +/- 1; env_assign(env, last_id, v); } after ++v / --v
prefix_apply(p, inc) ==
    LET v == IF inc THEN val_add(p.val, make_int(1)) ELSE val_sub(p.val, make_int(1))
    IN  IF p.executing THEN ret(do_assign(p, p.last_id, v), v) ELSE p

\* a v++ / v-- that yields the new value
postfix_apply_mut(p, inc) == prefix_apply(p, inc)

\* one v++ / v-- of the loop after the primary: writes v +/- 1, v stays
postfix_apply(p, inc) ==
    LET new_val == IF inc THEN val_add(p.val, make_int(1))
                   ELSE val_sub(p.val, make_int(1))
    IN  IF p.executing THEN do_assign(p, p.last_id, new_val) ELSE p

\* while (check(PLUS_PLUS) || check(MINUS_MINUS)) { ... }
RECURSIVE postfix_loop(_)
postfix_loop(p) ==
    IF check(p, "PLUS_PLUS") \/ check(p, "MINUS_MINUS")
    THEN postfix_loop(postfix_apply(advance(p), check(p, "PLUS_PLUS")))
    ELSE p

postfix(p) ==
    LET p0 == enter_node(p, "Prefix/Postfix")
    IN  exit_node(IF check(p0, "PLUS_PLUS") \/ check(p0, "MINUS_MINUS")
                  THEN prefix_apply(postfix(advance(p0)), check(p0, "PLUS_PLUS"))
                  ELSE postfix_loop(primary(p0)),
                  "Prefix/Postfix")

\* what unary() does to the value of its operand after ! or -
unary_apply_mut(p, op) ==
    IF ~p.executing THEN p
    ELSE IF op = "NOT"
    THEN ret(p, make_bool(~truthy(p.val)))
    ELSE IF p.val.type \in {"VAL_INT", "VAL_DOUBLE"}
    THEN ret(p, [p.val EXCEPT !.v = -@])
    ELSE p

unary_apply(p, op) ==
    IF ~p.executing THEN p
    ELSE IF op = "NOT"
    THEN (IF p.val.type = "VAL_BOOL" THEN ret(p, [p.val EXCEPT !.v = 1 - @]) ELSE p)
    ELSE IF p.val.type \in {"VAL_INT", "VAL_DOUBLE"}
    THEN ret(p, [p.val EXCEPT !.v = -@])
    ELSE p

unary(p) ==
    LET p0 == enter_node(p, "Unary")
    IN  exit_node(IF check(p0, "NOT") \/ check(p0, "MINUS")
                  THEN unary_apply(unary(advance(p0)), p0.current_token.type)
                  ELSE postfix(p0),
                  "Unary")

\* an int remainder whose divisor is 0 is undefined in C
factor_undefined(op, lhs, rhs) ==
    op = "PERCENT" /\ lhs.type = "VAL_INT" /\ rhs.type = "VAL_INT" /\ rhs.v = 0

\* the four ifs on op in factor()
factor_apply(op, lhs, rhs) ==
    IF op = "STAR" THEN val_mul(lhs, rhs)
    ELSE IF op = "SLASH" THEN val_div(lhs, rhs)
    ELSE IF op = "PERCENT" /\ lhs.type = "VAL_INT" /\ rhs.type = "VAL_INT"
         THEN (IF rhs.v = 0 THEN make_int(undef) ELSE make_int(c_rem(lhs.v, rhs.v)))
    ELSE lhs

RECURSIVE factor_operand(_, _, _)
factor_fold(op, lhs, p) ==
    LET v == IF op = NoOp THEN p.val
             ELSE IF p.executing THEN factor_apply(op, lhs, p.val) ELSE lhs
        pa == [p EXCEPT !.val = v,
                        !.ub = @ \/ (op # NoOp /\ p.executing
                                     /\ factor_undefined(op, lhs, p.val) /\ p.traps)]
    IN  IF check(p, "SLASH") \/ check(p, "STAR") \/ check(p, "PERCENT")
        THEN factor_operand(p.current_token.type, v, advance(pa))
        ELSE pa

factor_operand(op, lhs, p) == factor_fold(op, lhs, unary(p))

factor(p) ==
    exit_node(factor_operand(NoOp, make_int(0), enter_node(p, "Factor")), "Factor")

term_apply_mut(op, lhs, rhs) ==
    IF op = "PLUS" THEN val_add(lhs, rhs) ELSE val_sub(rhs, lhs)

term_apply(op, lhs, rhs) ==
    IF op = "PLUS" THEN val_add(lhs, rhs) ELSE val_sub(lhs, rhs)

RECURSIVE term_operand(_, _, _)
term_fold(op, lhs, p) ==
    LET v == IF op = NoOp THEN p.val
             ELSE IF p.executing THEN term_apply(op, lhs, p.val) ELSE lhs
    IN  IF check(p, "MINUS") \/ check(p, "PLUS")
        THEN term_operand(p.current_token.type, v, advance(p))
        ELSE ret(p, v)

term_operand(op, lhs, p) == term_fold(op, lhs, factor(p))

term(p) == exit_node(term_operand(NoOp, make_int(0), enter_node(p, "Term")), "Term")

\* while (match(AS)) consume(TYPE, ...): the value is the term's
RECURSIVE type_conversion_loop(_)
type_conversion_loop(p) ==
    IF check(p, "AS")
    THEN type_conversion_loop(consume(advance(p), "TYPE", "Expect type after 'as'."))
    ELSE p

type_conversion(p) ==
    exit_node(type_conversion_loop(term(enter_node(p, "TypeConversion"))),
              "TypeConversion")

\* d1 = (lhs.type == VAL_INT) ? lhs.as.int_val : lhs.as.double_val, and d2 alike
comparison_apply(op, lhs, rhs) ==
    LET d1 == double_val(lhs)
        d2 == double_val(rhs)
    IN  make_bool(IF op = "GREATER" THEN d1 > d2
                  ELSE IF op = "GREATER_EQUAL" THEN d1 >= d2
                  ELSE IF op = "LESS" THEN d1 < d2
                  ELSE d1 <= d2)

RECURSIVE comparison_operand(_, _, _)
comparison_fold(op, lhs, p) ==
    LET v == IF op = NoOp THEN p.val
             ELSE IF p.executing THEN comparison_apply(op, lhs, p.val) ELSE lhs
    IN  IF check(p, "GREATER") \/ check(p, "GREATER_EQUAL")
           \/ check(p, "LESS") \/ check(p, "LESS_EQUAL")
        THEN comparison_operand(p.current_token.type, v, advance(p))
        ELSE ret(p, v)

comparison_operand(op, lhs, p) == comparison_fold(op, lhs, type_conversion(p))

comparison(p) ==
    exit_node(comparison_operand(NoOp, make_int(0), enter_node(p, "Comparison")),
              "Comparison")

equality_apply(op, lhs, rhs) ==
    LET res == IF lhs.type = "VAL_INT" /\ rhs.type = "VAL_INT" THEN lhs.v = rhs.v
               ELSE IF lhs.type = "VAL_BOOL" /\ rhs.type = "VAL_BOOL" THEN lhs.v = rhs.v
               ELSE double_val(lhs) = double_val(rhs)
    IN  make_bool(IF op = "NOT_EQUAL" THEN ~res ELSE res)

RECURSIVE equality_operand(_, _, _)
equality_fold(op, lhs, p) ==
    LET v == IF op = NoOp THEN p.val
             ELSE IF p.executing THEN equality_apply(op, lhs, p.val) ELSE lhs
    IN  IF check(p, "NOT_EQUAL") \/ check(p, "EQUAL_EQUAL")
        THEN equality_operand(p.current_token.type, v, advance(p))
        ELSE ret(p, v)

equality_operand(op, lhs, p) == equality_fold(op, lhs, comparison(p))

equality(p) ==
    exit_node(equality_operand(NoOp, make_int(0), enter_node(p, "Equality")), "Equality")

RECURSIVE logical_and_operand(_, _, _)
logical_and_fold(op, lhs, p) ==
    LET v == IF op = NoOp THEN p.val
             ELSE IF p.executing THEN make_bool(truthy(lhs) /\ truthy(p.val)) ELSE lhs
    IN  IF check(p, "AND_AND")
        THEN logical_and_operand(p.current_token.type, v, advance(p))
        ELSE ret(p, v)

logical_and_operand(op, lhs, p) == logical_and_fold(op, lhs, equality(p))

logical_and(p) ==
    exit_node(logical_and_operand(NoOp, make_int(0), enter_node(p, "LogicalAnd")),
              "LogicalAnd")

RECURSIVE logical_or_operand(_, _, _)
logical_or_fold_mut(op, lhs, p) ==
    LET v == IF op = NoOp THEN p.val
             ELSE IF p.executing THEN make_bool(truthy(lhs) /\ truthy(p.val)) ELSE lhs
    IN  IF check(p, "OR_OR")
        THEN logical_or_operand(p.current_token.type, v, advance(p))
        ELSE ret(p, v)

logical_or_fold(op, lhs, p) ==
    LET v == IF op = NoOp THEN p.val
             ELSE IF p.executing THEN make_bool(truthy(lhs) \/ truthy(p.val)) ELSE lhs
    IN  IF check(p, "OR_OR")
        THEN logical_or_operand(p.current_token.type, v, advance(p))
        ELSE ret(p, v)

logical_or_operand(op, lhs, p) == logical_or_fold(op, lhs, logical_and(p))

logical_or(p) ==
    exit_node(logical_or_operand(NoOp, make_int(0), enter_node(p, "LogicalOr")),
              "LogicalOr")

expression(p) == exit_node(logical_or(enter_node(p, "Expression")), "Expression")

-----------------------------------------------------------------------------
(* Statements that call no other statement.  A statement that evaluates an *)
(* expression and then acts on its value is written in two parts: the      *)
(* part up to the last token it consumes, and X_apply, the part that acts  *)
(* on the Value (val) the expression left.                                 *)

\* a C loop whose pass left the parser as it found it repeats that pass for ever
no_progress(p, pa) == MachineState(pa) = MachineState(p)

\* if (match(TYPE)) {} else if (check(KEYWORD) && lexeme is "str") advance(parser);
optional_type(p) ==
    IF check(p, "TYPE") THEN advance(p)
    ELSE IF check(p, "KEYWORD") /\ p.current_token.lexeme = W_str THEN advance(p)
    ELSE p

\* if (parser->executing) in front of env_define
declaration_guard(p) == p.executing

\* if (parser->executing) env_define(parser->env, name, val, false);
declaration_apply(p, name) ==
    exit_node(IF declaration_guard(p) THEN do_define(p, name, p.val, FALSE) ELSE p,
              "DeclarationStatement")

declaration_statement(p) ==
    LET p2 == consume(optional_type(enter_node(p, "DeclarationStatement")),
                      "IDENTIFIER", "Expect variable name.")
    IN  declaration_apply(
            consume(IF check(p2, "EQUAL") THEN expression(advance(p2))
                    ELSE ret(p2, make_int(0)),
                    "SEMICOLON", "Expect ';' after variable declaration."),
            p2.previous_token.lexeme)

\* lhs = lhs op rhs for the compound operators assignment_statement knows
compound_apply(op, lhs, rhs) ==
    IF op = "PLUS_EQUAL" THEN val_add(lhs, rhs)
    ELSE IF op = "MINUS_EQUAL" THEN val_sub(lhs, rhs)
    ELSE IF op = "STAR_EQUAL" THEN val_mul(lhs, rhs)
    ELSE IF op = "SLASH_EQUAL" THEN val_div(lhs, rhs)
    ELSE lhs

\* if (parser->executing) { ... env_assign ... }
assignment_apply(p, name, op) ==
    LET got == env_get(p.env, name, make_null)
    IN  exit_node(IF ~p.executing THEN p
                  ELSE IF op = "EQUAL" THEN do_assign(p, name, p.val)
                  ELSE IF got.ok
                  THEN do_assign(p, name, compound_apply(op, got.out, p.val))
                  ELSE p,
                  "AssignmentStatement")

assignment_statement(p) ==
    LET p0 == enter_node(p, "AssignmentStatement")
    IN  assignment_apply(consume(expression(advance(p0)), "SEMICOLON",
                                 "Expect ';' after assignment."),
                         p0.previous_token.lexeme, p0.current_token.type)

\* scanf("%d", &val): the next number of stdin, or EOF with val left unset
input_apply(p, name) ==
    LET pa == [p EXCEPT !.effects = Append(@, Effect(p, "prompt", name, make_int(0)))]
    IN  exit_node(IF ~p.executing THEN p
                  ELSE IF p.stdin # << >>
                  THEN do_assign([pa EXCEPT !.stdin = Tail(@)], name,
                                 make_int(Head(p.stdin)))
                  ELSE do_assign(pa, name, make_int(undef)),
                  "InputStatement")

input_statement(p) ==
    LET p2 == consume(consume(enter_node(p, "InputStatement"),
                              "LEFT_PAREN", "Expect '(' after 'input'."),
                      "IDENTIFIER", "Expect variable name in input.")
    IN  input_apply(consume(consume(p2, "RIGHT_PAREN",
                                    "Expect ')' after input variable."),
                            "SEMICOLON", "Expect ';' after input statement."),
                    p2.previous_token.lexeme)

\* if (parser->executing) { printf of val by its type; printf("\n"); }
output_apply(p) ==
    exit_node(IF p.executing THEN do_print(p, p.val) ELSE p, "OutputStatement")

output_statement(p) ==
    output_apply(
        consume(consume(expression(consume(enter_node(p, "OutputStatement"),
                                           "LEFT_PAREN", "Expect '(' after 'print'.")),
                        "RIGHT_PAREN", "Expect ')' after print expression."),
                "SEMICOLON", "Expect ';' after print statement."))

\* one more loop iteration is about to run: the model stops after MaxIter of them
iteration_cut(p) == p.iterations >= MaxIter

\* the initialiser clause of for ( ... ; ... ; ... )
for_initializer(p) ==
    IF check(p, "SEMICOLON") THEN advance(p)
    ELSE IF check(p, "TYPE") \/ (check(p, "KEYWORD") /\ p.current_token.lexeme = W_str)
         THEN declaration_statement(advance(p))
    ELSE IF check(p, "IDENTIFIER") THEN assignment_statement(advance(p))
    ELSE error(p, "Expect variable declaration or assignment in for loop.")

\* the condition clause: p.val is cond afterwards
for_condition(p) ==
    consume(IF ~check(p, "SEMICOLON") THEN expression(p) ELSE ret(p, make_bool(TRUE)),
            "SEMICOLON", "Expect ';' after loop condition.")

\* if (!check(parser, RIGHT_PAREN)) expression(parser);
for_increment(p) == IF ~check(p, "RIGHT_PAREN") THEN expression(p) ELSE p

\* a dry run that leaves executing on
for_increment_dry_mut(p) ==
    consume(for_increment(p), "RIGHT_PAREN", "Expect ')' after for clauses.")

\* the dry run over the increment clause, executing switched off
for_increment_dry(p) ==
    [consume(for_increment([p EXCEPT !.executing = FALSE]),
             "RIGHT_PAREN", "Expect ')' after for clauses.")
        EXCEPT !.executing = p.executing]

\* after the body: trace_parse = false; jump_to(inc_loc); executing = true; the clause
for_increment_run(p, inc_loc) ==
    for_increment([jump_to([p EXCEPT !.trace_parse = FALSE], inc_loc)
                      EXCEPT !.executing = TRUE])

\* a next that turns the rest of the body off
next_statement_mut(p) ==
    [exit_node(consume(enter_node(p, "NextStatement"), "SEMICOLON",
                       "Expect ';' after 'next'."), "NextStatement")
        EXCEPT !.executing = FALSE]

next_statement(p) ==
    exit_node(consume(enter_node(p, "NextStatement"), "SEMICOLON",
                      "Expect ';' after 'next'."), "NextStatement")

\* if (match(EQUAL)) expression(parser);
initializer(p) == IF check(p, "EQUAL") THEN expression(advance(p)) ELSE p

RECURSIVE enum_loop(_)
\* if (!match(COMMA)) break;
enum_next(p) == IF check(p, "COMMA") THEN enum_loop(advance(p)) ELSE p

enum_loop(p) ==
    IF check(p, "RIGHT_BRACE") \/ check(p, "TOKEN_EOF") \/ Stopped(p) THEN p
    ELSE enum_next(initializer(consume(p, "IDENTIFIER", "Expect enum member name.")))

enum_declaration(p) ==
    exit_node(
        consume(enum_loop(consume(consume(enter_node(p, "EnumDeclaration"),
                                          "IDENTIFIER", "Expect enum name."),
                                  "LEFT_BRACE", "Expect '{' before enum members.")),
                "RIGHT_BRACE", "Expect '}' after enum members."),
        "EnumDeclaration")

\* if (match(TYPE)) {} else if (KEYWORD "str") advance(parser); else error(message)
member_type(p, message) ==
    IF check(p, "TYPE") THEN advance(p)
    ELSE IF check(p, "KEYWORD") /\ p.current_token.lexeme = W_str THEN advance(p)
    ELSE error(p, message)

struct_member(p) ==
    consume(consume(member_type(p, "Expect type in struct member."),
                    "IDENTIFIER", "Expect member name."),
            "SEMICOLON", "Expect ';' after member.")

RECURSIVE struct_loop(_)
\* the next pass of the while loop, from the state pa the pass over p left
struct_next(p, pa) ==
    IF no_progress(p, pa) THEN [pa EXCEPT !.hung = TRUE] ELSE struct_loop(pa)

struct_loop(p) ==
    IF check(p, "RIGHT_BRACE") \/ check(p, "TOKEN_EOF") \/ Stopped(p) THEN p
    ELSE struct_next(p, struct_member(p))

struct_declaration(p) ==
    exit_node(
        consume(struct_loop(consume(consume(enter_node(p, "StructDefinition"),
                                            "IDENTIFIER", "Expect struct name."),
                                    "LEFT_BRACE", "Expect '{' before struct members.")),
                "RIGHT_BRACE", "Expect '}' after struct members."),
        "StructDefinition")

record_member(p) ==
    consume(initializer(consume(member_type(IF check(p, "REQ") THEN advance(p) ELSE p,
                                            "Expect type in record member."),
                                "IDENTIFIER", "Expect member name.")),
            "SEMICOLON", "Expect ';' after member.")

RECURSIVE record_loop(_)
record_next(p, pa) ==
    IF no_progress(p, pa) THEN [pa EXCEPT !.hung = TRUE] ELSE record_loop(pa)

record_loop(p) ==
    IF check(p, "RIGHT_BRACE") \/ check(p, "TOKEN_EOF") \/ Stopped(p) THEN p
    ELSE record_next(p, record_member(p))

record_declaration(p) ==
    exit_node(
        consume(record_loop(consume(consume(enter_node(p, "RecordDeclaration"),
                                            "IDENTIFIER", "Expect record name."),
                                    "LEFT_BRACE", "Expect '{' before record members.")),
                "RIGHT_BRACE", "Expect '}' after record members."),
        "RecordDeclaration")

\* do { [type] name } while (match(COMMA));
RECURSIVE method_arguments(_)
method_arguments(p) ==
    LET pa == optional_type(p)
        pb == IF check(pa, "IDENTIFIER") \/ check(pa, "KEYWORD") THEN advance(pa)
              ELSE error(pa, "Expect argument name.")
    IN  IF check(pb, "COMMA") THEN method_arguments(advance(pb)) ELSE pb

\* if (executing && env_get(name, &v)) env_assign(name, v +/- 1); consume(SEMICOLON)
increment_apply(p, name, op) ==
    LET got == env_get(p.env, name, make_null)
        v == IF op = "PLUS_PLUS" THEN val_add(got.out, make_int(1))
             ELSE val_sub(got.out, make_int(1))
    IN  exit_node(consume(IF p.executing /\ got.ok THEN do_assign(p, name, v) ELSE p,
                          "SEMICOLON", "Expect ';' after increment/decrement."),
                  "IncrementStatement")

\* ++name; / --name; at the start of a statement
prefix_increment_statement(p) ==
    LET p0 == enter_node(advance(p), "IncrementStatement")
        p1 == consume(p0, "IDENTIFIER", "Expect identifier after prefix operator.")
    IN  increment_apply(p1, p1.previous_token.lexeme, p0.previous_token.type)

\* name++; / name--; after the identifier
postfix_increment_statement(p, name) ==
    LET p0 == enter_node(p, "IncrementStatement")
    IN  increment_apply(advance(p0), name, p0.current_token.type)

function_call(p) ==
    LET p1 == consume(enter_node(p, "FunctionCall"),
                      "LEFT_PAREN", "Expect '(' after function name.")
    IN  exit_node(consume(consume(IF ~check(p1, "RIGHT_PAREN") THEN expression(p1)
                                  ELSE p1,
                                  "RIGHT_PAREN", "Expect ')' after arguments."),
                          "SEMICOLON", "Expect ';' after function call."),
                  "FunctionCall")

\* the statement that begins with an identifier, already consumed
identifier_statement(p) ==
    IF p.current_token.type \in {"EQUAL", "PLUS_EQUAL", "MINUS_EQUAL", "STAR_EQUAL",
                                 "SLASH_EQUAL", "PERCENT_EQUAL"}
    THEN assignment_statement(p)
    ELSE IF check(p, "LEFT_PAREN") THEN function_call(p)
    ELSE IF check(p, "PLUS_PLUS") \/ check(p, "MINUS_MINUS")
         THEN postfix_increment_statement(p, p.previous_token.lexeme)
    ELSE error(p, "Unexpected identifier usage.")

\* a faulty branch flag: the condition alone
if_branch_exec_mut(parent_exec, b) == b

\* parser->executing = parent_exec && b;
if_branch_exec(parent_exec, b) == parent_exec /\ b

\* parser->executing = parent_exec && !b;
\* an else branch that does not look at the condition
else_branch_exec_mut(parent_exec, b) == parent_exec

else_branch_exec(parent_exec, b) == parent_exec /\ ~b

return_statement(p) ==
    LET p0 == advance(enter_node(p, "ReturnStatement"))
    IN  exit_node(consume(IF ~check(p0, "SEMICOLON") THEN expression(p0) ELSE p0,
                          "SEMICOLON", "Expect ';' after return value."),
                  "ReturnStatement")

\* if (parser->executing) env_define(parser->env, name, val, false);
let_apply(p, name) ==
    exit_node(IF p.executing THEN do_define(p, name, p.val, FALSE) ELSE p,
              "LetStatement")

let_statement(p) ==
    LET p1 == consume(advance(enter_node(p, "LetStatement")),
                      "IDENTIFIER", "Expect variable name after 'let'.")
    IN  let_apply(consume(expression(consume(p1, "EQUAL",
                                             "Expect '=' after variable name.")),
                          "SEMICOLON", "Expect ';' after let statement."),
                  p1.previous_token.lexeme)

\* if (parser->executing) env_assign(parser->env, name, val);
set_apply(p, name) ==
    exit_node(IF p.executing THEN do_assign(p, name, p.val) ELSE p, "SetStatement")

set_statement(p) ==
    LET p1 == consume(advance(enter_node(p, "SetStatement")),
                      "IDENTIFIER", "Expect variable name after 'set'.")
    IN  set_apply(consume(expression(consume(p1, "EQUAL",
                                             "Expect '=' after variable name.")),
                          "SEMICOLON", "Expect ';' after set statement."),
                  p1.previous_token.lexeme)

-----------------------------------------------------------------------------
(* Statements that call statement().  A frame is one activation of such a  *)
(* function: fn is the function, at the place it resumes from when the     *)
(* call it is waiting for returns, the other fields its local variables.   *)
(* replay is set once a loop has jumped back over its own tokens.          *)

Frame(fn) ==
    [fn |-> fn, at |-> "begin", loop_start |-> 0, cond_loc |-> 0, inc_loc |-> 0,
     first_pass |-> TRUE, first |-> TRUE, parent_exec |-> TRUE, b |-> FALSE,
     node |-> "", replay |-> FALSE, entry_exec |-> TRUE]

\* what one step of an activation f leaves: the parser, and the frames that
\* take the place of f on the stack
Goto(p, f, at) == [p |-> p, fs |-> <<[f EXCEPT !.at = at]>>]

\* entry_exec of the new activation: parser->executing as the call finds it
Call(p, f, at, fn) ==
    [p |-> p, fs |-> <<[f EXCEPT !.at = at], [Frame(fn) EXCEPT !.entry_exec = p.executing]>>]

Return(p) == [p |-> p, fs |-> << >>]

\* a block that drops the bindings at its closing brace
block_loop_mut(p, f) ==
    IF check(p, "RIGHT_BRACE") \/ check(p, "TOKEN_EOF")
    THEN Return([exit_node(consume(p, "RIGHT_BRACE", "Expect '}' after block."), "Block")
                    EXCEPT !.env = env_create])
    ELSE Call(p, f, "loop", "statement")

\* while (!check(RIGHT_BRACE) && !check(TOKEN_EOF)) statement(parser); then '}'
block_loop(p, f) ==
    IF check(p, "RIGHT_BRACE") \/ check(p, "TOKEN_EOF")
    THEN Return(exit_node(consume(p, "RIGHT_BRACE", "Expect '}' after block."), "Block"))
    ELSE Call(p, f, "loop", "statement")

block(p, f) ==
    IF f.at = "begin" THEN block_loop(enter_node(p, "Block"), f)
    ELSE block_loop(p, f)

\* a faulty skip: executing left as it is
skip_body_mut(p) == p

\* parser->executing = false; in front of the statement() that skips the body
skip_body(p) == [p EXCEPT !.executing = FALSE]

\* a loop that returns at its first false condition, the body not skipped
while_test_mut(p, f) ==
    IF truthy(p.val)
    THEN IF iteration_cut(p) THEN Goto([p EXCEPT !.cut = TRUE], f, f.at)
         ELSE Call([p EXCEPT !.iterations = @ + 1], [f EXCEPT !.b = TRUE],
                   "after_body", "statement")
    ELSE Return(exit_node([p EXCEPT !.trace_parse = TRUE], "WhileStatement"))

\* while (b) { statement(parser); ... } executing = false; statement(parser);
\* p.val is cond
while_test(p, f) ==
    IF truthy(p.val)
    THEN IF iteration_cut(p) THEN Goto([p EXCEPT !.cut = TRUE], f, f.at)
         ELSE Call([p EXCEPT !.iterations = @ + 1], [f EXCEPT !.b = TRUE],
                   "after_body", "statement")
    ELSE Call(skip_body(p), [f EXCEPT !.b = FALSE], "after_skip", "statement")

\* a loop that runs whether executing or not
while_enter_mut(p, f) == while_test(p, f)

\* if (parser->executing) { the loop } else { statement(parser); }
while_enter(p, f) ==
    IF p.executing THEN while_test(p, f) ELSE Call(p, f, "end", "statement")

\* jump_to(loop_start); trace_parse = false; the noise word, '(' expression ')'
while_replay(p, loop_start) ==
    LET pa == [jump_to(p, loop_start) EXCEPT !.trace_parse = FALSE]
        pb == IF check(pa, "NOISE_WORD") THEN advance(pa) ELSE pa
    IN  consume(expression(consume(pb, "LEFT_PAREN", "msg")), "RIGHT_PAREN", "msg")

while_statement_mut(p, f) ==
    IF f.at = "begin"
    THEN LET p0 == enter_node(p, "WhileStatement")
             p1 == IF check(p0, "NOISE_WORD") /\ p0.current_token.lexeme = W_its
                   THEN advance(p0) ELSE p0
         IN  while_enter(
                 consume(expression(consume(p1, "LEFT_PAREN",
                                            "Expect '(' after 'while'.")),
                         "RIGHT_PAREN", "Expect ')' after condition."),
                 [f EXCEPT !.loop_start = p0.current_index - 2])
    ELSE IF f.at = "after_body"
    THEN while_test(while_replay(p, f.loop_start), [f EXCEPT !.replay = TRUE])
    ELSE IF f.at = "after_skip"
    THEN Return(exit_node([p EXCEPT !.trace_parse = TRUE], "WhileStatement"))
    ELSE Return(exit_node([p EXCEPT !.trace_parse = TRUE], "WhileStatement"))

while_statement(p, f) ==
    IF f.at = "begin"
    THEN LET p0 == enter_node(p, "WhileStatement")
             p1 == IF check(p0, "NOISE_WORD") /\ p0.current_token.lexeme = W_its
                   THEN advance(p0) ELSE p0
         IN  while_enter(
                 consume(expression(consume(p1, "LEFT_PAREN",
                                            "Expect '(' after 'while'.")),
                         "RIGHT_PAREN", "Expect ')' after condition."),
                 [f EXCEPT !.loop_start = p0.current_index - 2])
    ELSE IF f.at = "after_body"
    THEN while_test(while_replay(p, f.loop_start), [f EXCEPT !.replay = TRUE])
    ELSE IF f.at = "after_skip"
    THEN Return(exit_node([p EXCEPT !.executing = TRUE, !.trace_parse = TRUE],
                          "WhileStatement"))
    ELSE Return(exit_node([p EXCEPT !.trace_parse = TRUE], "WhileStatement"))

\* if (b) { statement(parser); ... } else { the skip over the body; break; }
\* p is the parser after the dry run over the increment, f.b is b
for_body(p, f) ==
    IF f.b
    THEN IF iteration_cut(p) THEN Goto([p EXCEPT !.cut = TRUE], f, f.at)
         ELSE Call([p EXCEPT !.iterations = @ + 1], f, "after_body", "statement")
    ELSE IF p.executing
    THEN Call(skip_body(p), f, "after_skip", "statement")
    ELSE Call(p, f, "end", "statement")

\* p is the parser after the condition clause: b and inc_loc, then the dry run
for_clauses(p, f) ==
    for_body(for_increment_dry(p),
             [f EXCEPT !.inc_loc = p.current_index - 2,
                       !.b = truthy(p.val) /\ p.executing])

\* one turn of for_statement's while(1), up to its call of statement()
for_pass(p, f) ==
    for_clauses(for_condition(IF ~f.first_pass
                              THEN [jump_to(p, f.cond_loc) EXCEPT !.trace_parse = FALSE]
                              ELSE p),
                f)

\* p is the parser after the initialiser: cond_loc, then the first turn
for_enter(p, f) ==
    for_pass(p, [f EXCEPT !.cond_loc = p.current_index - 2, !.first_pass = TRUE])

for_statement(p, f) ==
    IF f.at = "begin"
    THEN for_enter(for_initializer(consume(enter_node(p, "ForStatement"),
                                           "LEFT_PAREN", "Expect '(' after 'for'.")),
                   f)
    ELSE IF f.at = "after_body"
    THEN for_pass(for_increment_run(p, f.inc_loc),
                  [f EXCEPT !.first_pass = FALSE, !.replay = TRUE])
    ELSE IF f.at = "after_skip"
    THEN Return(exit_node([p EXCEPT !.executing = TRUE, !.trace_parse = TRUE],
                          "ForStatement"))
    ELSE Return(exit_node([p EXCEPT !.trace_parse = TRUE], "ForStatement"))

foreach_statement(p, f) ==
    IF f.at = "begin"
    THEN LET p0 == enter_node(p, "ForeachStatement")
             p1 == consume(p0, "LEFT_PAREN", "Expect '(' after 'foreach'.")
             p2 == IF check(p1, "TYPE") THEN advance(p1)
                   ELSE IF check(p1, "KEYWORD") /\ p1.current_token.lexeme \in {W_str, W_var}
                        THEN advance(p1)
                   ELSE error(p1, "Expect type or 'var' in foreach.")
             p3 == consume(p2, "IDENTIFIER", "Expect variable name.")
             p4 == IF check(p3, "RESERVED_WORD") /\ p3.current_token.lexeme = W_in
                   THEN advance(p3) ELSE error(p3, "Expect 'in' after variable.")
             p5 == consume(expression(p4), "RIGHT_PAREN", "Expect ')' after collection.")
         IN  Call(p5, f, "end", "statement")
    ELSE Return(exit_node(p, "ForeachStatement"))

\* the statements of one case or default clause, then exit_node of the clause
clause_loop(p, f) ==
    IF p.current_token.type \in {"CASE", "DEFAULT", "RIGHT_BRACE", "TOKEN_EOF"}
    THEN Goto(exit_node(p, f.node), f, "loop")
    ELSE Call(p, f, "clause", "statement")

\* one turn of switch_statement's loop over the clauses
switch_loop(p, f) ==
    IF check(p, "RIGHT_BRACE") \/ check(p, "TOKEN_EOF")
    THEN Return(exit_node(consume(p, "RIGHT_BRACE", "Expect '}' after switch body."),
                          "SwitchStatement"))
    ELSE IF check(p, "CASE")
    THEN LET pa == expression(enter_node(advance(p), "CaseClause"))
             pb == consume(pa, "COLON", "Expect ':' after case expression.")
         IN  clause_loop(pb, [f EXCEPT !.node = "CaseClause"])
    ELSE IF check(p, "DEFAULT")
    THEN LET pa == enter_node(advance(p), "DefaultClause")
             pb == consume(pa, "COLON", "Expect ':' after default.")
         IN  clause_loop(pb, [f EXCEPT !.node = "DefaultClause"])
    ELSE Goto(advance(error(p, "Expect 'case' or 'default' inside switch.")), f, "loop")

switch_statement(p, f) ==
    IF f.at = "begin"
    THEN LET p0 == enter_node(p, "SwitchStatement")
             p1 == consume(p0, "LEFT_PAREN", "Expect '(' after 'switch'.")
             p2 == consume(expression(p1), "RIGHT_PAREN",
                           "Expect ')' after switch expression.")
             p3 == consume(p2, "LEFT_BRACE", "Expect '{' before switch cases.")
         IN  switch_loop(p3, f)
    ELSE IF f.at = "clause" THEN clause_loop(p, f)
    ELSE switch_loop(p, f)

\* a test that does not look at executing
do_while_again_mut(p, f) ==
    IF truthy(p.val)
    THEN IF iteration_cut(p) THEN Goto([p EXCEPT !.cut = TRUE], f, f.at)
         ELSE Goto([consume(jump_to(p, f.loop_start), "LEFT_BRACE", "msg")
                       EXCEPT !.trace_parse = FALSE, !.iterations = @ + 1],
                   [f EXCEPT !.first = FALSE, !.replay = TRUE], "body")
    ELSE Return(exit_node([p EXCEPT !.trace_parse = TRUE], "DoWhileStatement"))

\* if (parser->executing && b) { jump back } else break; p.val is cond
do_while_again(p, f) ==
    IF p.executing /\ truthy(p.val)
    THEN IF iteration_cut(p) THEN Goto([p EXCEPT !.cut = TRUE], f, f.at)
         ELSE Goto([consume(jump_to(p, f.loop_start), "LEFT_BRACE", "msg")
                       EXCEPT !.trace_parse = FALSE, !.iterations = @ + 1],
                   [f EXCEPT !.first = FALSE, !.replay = TRUE], "body")
    ELSE Return(exit_node([p EXCEPT !.trace_parse = TRUE], "DoWhileStatement"))

\* after the body of do { ... }: '}' while ( expression ) ; and the test
do_while_test(p, f) ==
    LET pb == consume(p, "RIGHT_BRACE", "Expect '}' after block.")
        pc_ == IF check(pb, "RESERVED_WORD") /\ pb.current_token.lexeme = W_while
               THEN advance(pb) ELSE error(pb, "Expect 'while' after do-block.")
    IN  do_while_again(
            consume(consume(expression(consume(pc_, "LEFT_PAREN",
                                               "Expect '(' after 'while'.")),
                            "RIGHT_PAREN", "Expect ')' after condition."),
                    "SEMICOLON", "Expect ';' after do-while."),
            f)

\* while (!check(RIGHT_BRACE) && !check(TOKEN_EOF)) statement(parser);
do_while_body(p, f) ==
    IF check(p, "RIGHT_BRACE") \/ check(p, "TOKEN_EOF") THEN do_while_test(p, f)
    ELSE Call(p, f, "body", "statement")

do_while_statement(p, f) ==
    IF f.at = "begin"
    THEN LET p0 == enter_node(p, "DoWhileStatement")
             loop_start == p0.current_index - 2
             p1 == consume(p0, "LEFT_BRACE", "Expect '{' after 'do'.")
         IN  do_while_body(p1, [f EXCEPT !.loop_start = loop_start, !.first = TRUE])
    ELSE do_while_body(p, f)

\* the end of a field: p is the parser before the member, pa after its ';'
class_field(p, pa, f) ==
    IF no_progress(p, pa) THEN Goto([pa EXCEPT !.hung = TRUE], f, "member")
    ELSE Goto(pa, f, "member")

\* one member of a class body, up to the body of a method or of a property
class_member(p, f) ==
    LET pa == IF check(p, "PUB") \/ check(p, "PRIV") \/ check(p, "PROT")
              THEN advance(p) ELSE p
        pb == IF check(pa, "RESERVED_WORD") /\ pa.current_token.lexeme = W_rdo
              THEN advance(pa) ELSE pa
        pc_ == member_type(pb, "Expect type or void in class member.")
        pd == consume(pc_, "IDENTIFIER", "Expect member name.")
    IN  IF check(pd, "LEFT_PAREN")
        THEN LET p0 == enter_node(advance(pd), "MethodDeclaration")
                 p1 == IF ~check(p0, "RIGHT_PAREN") THEN method_arguments(p0) ELSE p0
                 p2 == consume(p1, "RIGHT_PAREN", "Expect ')' after arguments.")
                 p3 == consume(p2, "LEFT_BRACE", "Expect '{' before method body.")
             IN  Call(p3, f, "after_method", "block")
        ELSE IF check(pd, "LEFT_BRACE")
        THEN Goto(enter_node(advance(pd), "PropertyDeclaration"), f, "property")
        ELSE class_field(p, consume(initializer(pd), "SEMICOLON",
                                    "Expect ';' after field."), f)

\* one turn of the loop over the accessors of a property
property_accessor(p, f) ==
    IF check(p, "RIGHT_BRACE") \/ check(p, "TOKEN_EOF")
    THEN Goto(exit_node(consume(p, "RIGHT_BRACE", "Expect '}' after property body."),
                        "PropertyDeclaration"), f, "member")
    ELSE IF check(p, "GET") \/ check(p, "SET") \/ check(p, "INIT")
    THEN LET pa == advance(p)
         IN  IF check(pa, "LEFT_BRACE") THEN Goto(advance(pa), f, "accessor")
             ELSE Goto(consume(pa, "SEMICOLON",
                               "Expect ';' after accessor (auto-implemented)."),
                       f, "property")
    ELSE Goto(advance(error(p, "Expect get, set, or init.")), f, "property")

\* the statements of an accessor body, then its '}'
accessor_body(p, f) ==
    IF check(p, "RIGHT_BRACE") \/ check(p, "TOKEN_EOF")
    THEN Goto(consume(p, "RIGHT_BRACE", "Expect '}' after accessor body."), f, "property")
    ELSE Call(p, f, "accessor", "statement")

class_declaration(p, f) ==
    IF f.at = "begin"
    THEN LET p0 == enter_node(p, "ClassDeclaration")
             p1 == consume(p0, "IDENTIFIER", "Expect class name.")
             p2 == consume(p1, "LEFT_BRACE", "Expect '{' before class body.")
         IN  Goto(p2, f, "member")
    ELSE IF f.at = "member"
    THEN IF check(p, "RIGHT_BRACE") \/ check(p, "TOKEN_EOF")
         THEN Return(exit_node(consume(p, "RIGHT_BRACE", "Expect '}' after class body."),
                               "ClassDeclaration"))
         ELSE class_member(p, f)
    ELSE IF f.at = "after_method" THEN Goto(exit_node(p, "MethodDeclaration"), f, "member")
    ELSE IF f.at = "property" THEN property_accessor(p, f)
    ELSE accessor_body(p, f)

\* after the ')' of the condition (p.val is cond): the noise word, parent_exec and b,
\* then the branch
if_then(p, f) ==
    LET parent_exec == p.executing
        b == truthy(p.val)
    IN  Call([(IF check(p, "NOISE_WORD") /\ p.current_token.lexeme = W_then
               THEN advance(p) ELSE p)
                 EXCEPT !.executing = if_branch_exec(parent_exec, b)],
             [f EXCEPT !.parent_exec = parent_exec, !.b = b],
             "after_then", "statement")

\* the if statement inside statement()
if_statement(p, f) ==
    IF f.at = "begin"
    THEN LET p0 == advance(enter_node(p, "IfStatement"))
             p1 == IF check(p0, "NOISE_WORD") /\ p0.current_token.lexeme = W_at
                   THEN advance(p0) ELSE p0
         IN  if_then(consume(expression(consume(p1, "LEFT_PAREN",
                                                "Expect '(' after 'if'.")),
                             "RIGHT_PAREN", "Expect ')' after condition."),
                     f)
    ELSE IF f.at = "after_then"
    THEN LET p6 == [p EXCEPT !.executing = f.parent_exec]
         IN  IF check(p6, "RESERVED_WORD") /\ p6.current_token.lexeme = W_else
             THEN Call([advance(p6) EXCEPT
                           !.executing = else_branch_exec(f.parent_exec, f.b)],
                       f, "after_else", "statement")
             ELSE Return(exit_node(p6, "IfStatement"))
    ELSE Return(exit_node([p EXCEPT !.executing = f.parent_exec], "IfStatement"))

\* what the if / else-if chain of statement() does with the token it sees: p is the
\* parser after the branch, or up to the function the branch calls when that
\* function (call) contains calls of statement()
Done(p) == [p |-> p, call |-> "none"]

Calls(p, fn) == [p |-> p, call |-> fn]

\* the statement that begins with a RESERVED_WORD or KEYWORD token, by its lexeme
word_statement(p) ==
    LET lexeme == p.current_token.lexeme
    IN  IF lexeme = W_while THEN Calls(advance(p), "while_statement")
        ELSE IF lexeme = W_for THEN Calls(advance(p), "for_statement")
        ELSE IF lexeme = W_foreach THEN Calls(advance(p), "foreach_statement")
        ELSE IF lexeme = W_if THEN Calls(p, "if_statement")
        ELSE IF lexeme = W_return THEN Done(return_statement(p))
        ELSE IF lexeme = W_input THEN Done(input_statement(advance(p)))
        ELSE IF lexeme = W_print THEN Done(output_statement(advance(p)))
        ELSE IF lexeme = W_let THEN Done(let_statement(p))
        ELSE IF lexeme = W_set THEN Done(set_statement(p))
        ELSE IF lexeme \in {W_var, W_const, W_dyn}
             THEN Done(declaration_statement(advance(p)))
        ELSE Done(advance(error(p, "Unexpected keyword at start of statement.")))

statement_dispatch(p) ==
    IF check(p, "PLUS_PLUS") \/ check(p, "MINUS_MINUS")
    THEN Done(prefix_increment_statement(p))
    ELSE IF check(p, "TYPE") THEN Done(declaration_statement(advance(p)))
    ELSE IF check(p, "KEYWORD") /\ p.current_token.lexeme = W_str
         THEN Done(declaration_statement(advance(p)))
    ELSE IF check(p, "SWITCH") THEN Calls(advance(p), "switch_statement")
    ELSE IF check(p, "DO") THEN Calls(advance(p), "do_while_statement")
    ELSE IF check(p, "NEXT") THEN Done(next_statement(advance(p)))
    ELSE IF check(p, "BREAK")
         THEN Done(consume(advance(p), "SEMICOLON", "Expect ';' after break."))
    ELSE IF check(p, "CLASS") THEN Calls(advance(p), "class_declaration")
    ELSE IF check(p, "STRUCT") THEN Done(struct_declaration(advance(p)))
    ELSE IF check(p, "ENUM") THEN Done(enum_declaration(advance(p)))
    ELSE IF check(p, "RECORD") THEN Done(record_declaration(advance(p)))
    ELSE IF (check(p, "PUB") \/ check(p, "PRIV")) /\ p.next_token.type = "RECORD"
         THEN Done(record_declaration(advance(advance(p))))
    ELSE IF check(p, "RESERVED_WORD") \/ check(p, "KEYWORD") THEN word_statement(p)
    ELSE IF check(p, "LEFT_BRACE") THEN Calls(advance(p), "block")
    ELSE IF check(p, "IDENTIFIER") THEN Done(identifier_statement(advance(p)))
    ELSE IF p.current_token.type # "TOKEN_EOF" THEN Done(advance(p))
    ELSE Done(p)

\* if (parser->panic_mode) synchronize(parser); exit_node(parser, "Statement");
statement_end(p) == exit_node(IF p.panic_mode THEN synchronize(p) ELSE p, "Statement")

\* d is what the chain did: either the statement is over, or it is inside a call
statement_branch(d, f) ==
    IF d.call = "none" THEN Return(statement_end(d.p))
    ELSE Call(d.p, f, "end", d.call)

statement(p, f) ==
    IF f.at = "begin" THEN statement_branch(statement_dispatch(enter_node(p, "Statement")), f)
    ELSE Return(statement_end(p))

\* the loop of parser_parse
parser_parse(p, f) ==
    IF p.current_token.type # "TOKEN_EOF" THEN Call(p, f, "loop", "statement")
    ELSE Return(exit_node(p, "Program"))

-----------------------------------------------------------------------------
(* The Scanner.  A text is a sequence of one-character strings; NUL is    *)
(* the '\0' that ends a C string and that lexer_peek returns past the end *)
(* of the source.                                                         *)

NUL == ""
NL == "\n"
CR == "\r"
TAB == "\t"
BS == "\\"
DQ == "\""
SQ == "'"
SP == " "
BAR == "|"

Lower ==
    <<"a", "b", "c", "d", "e", "f", "g", "h", "i", "j", "k", "l", "m",
      "n", "o", "p", "q", "r", "s", "t", "u", "v", "w", "x", "y", "z">>

Upper ==
    <<"A", "B", "C", "D", "E", "F", "G", "H", "I", "J", "K", "L", "M",
      "N", "O", "P", "Q", "R", "S", "T", "U", "V", "W", "X", "Y", "Z">>

\* the place of character c in text s, 0 when it is not there
position(c, s) ==
    IF \E i \in 1..Len(s) : s[i] = c THEN CHOOSE i \in 1..Len(s) : s[i] = c ELSE 0

\* a C string read from a buffer: the text before the first NUL
c_str(buffer) ==
    IF position(NUL, buffer) = 0 THEN buffer ELSE SubSeq(buffer, 1, position(NUL, buffer) - 1)

to_lower(c) == IF position(c, Upper) # 0 THEN Lower[position(c, Upper)] ELSE c

TRIE_MAX_STATES == 200

IDENTIFIER_MAX_LENGTH == 31

MAX_LEXEME_LENGTH == 256

\* a node as trie_create and trie_add initialize it; accepting_type is read
\* only where is_accepting is set
TrieNode == [transitions |-> [i \in 0..25 |-> -1], is_accepting |-> FALSE, accepting_type |-> "NONE"]

\* ub: a node was written past the end of the node table
trie_create == [nodes |-> <<TrieNode>>, node_count |-> 1, ub |-> FALSE]

\* the loop of trie_add from character i (counted from 1) in state
RECURSIVE trie_add_from(_, _, _, _, _)
trie_add_from(trie, text, type, i, state) ==
    IF trie.ub THEN trie
    ELSE IF i > Len(text)
    THEN [trie EXCEPT !.nodes[state + 1].is_accepting = TRUE,
                      !.nodes[state + 1].accepting_type = type]
    ELSE LET index == position(to_lower(text[i]), Lower) - 1
             next == trie.node_count
         IN  IF index < 0 THEN trie_add_from(trie, text, type, i + 1, state)
             ELSE IF trie.nodes[state + 1].transitions[index] # -1
             THEN trie_add_from(trie, text, type, i + 1,
                                trie.nodes[state + 1].transitions[index])
             ELSE IF next >= TRIE_MAX_STATES
             THEN [trie EXCEPT !.node_count = next + 1, !.ub = TRUE]
             ELSE trie_add_from(
                      [trie EXCEPT !.node_count = next + 1,
                                   !.nodes = Append([@ EXCEPT ![state + 1].transitions[index] = next],
                                                    TrieNode)],
                      text, type, i + 1, next)

\* a trie_add that starts at the newest node and not at the root
trie_add_mut(trie, text, type) == trie_add_from(trie, text, type, 1, trie.node_count - 1)

\* int state = 0; the loop over text; the accepting mark
trie_add(trie, text, type) == trie_add_from(trie, text, type, 1, 0)

trie_move(trie, state, c) ==
    IF state < 0 \/ state >= trie.node_count THEN -1
    ELSE IF position(c, Lower) = 0 THEN -1
    ELSE trie.nodes[state + 1].transitions[position(c, Lower) - 1]

trie_try_get_type_mut(trie, state, type) ==
    IF state >= 0 /\ state < trie.node_count
    THEN trie.nodes[state + 1].accepting_type
    ELSE type

\* the type left in *out_type, which held type before the call
trie_try_get_type(trie, state, type) ==
    IF state >= 0 /\ state < trie.node_count /\ trie.nodes[state + 1].is_accepting
    THEN trie.nodes[state + 1].accepting_type
    ELSE type

\* the calls of trie_add in initialize_keywords, in order: <<text, type>>
KeywordTable ==
    <<
      <<<<"a", "n", "d">>, "KEYWORD">>,
      <<<<"a", "r", "g", "s">>, "KEYWORD">>,
      <<<<"a", "s", "y", "n", "c">>, "KEYWORD">>,
      <<<<"d", "y", "n">>, "KEYWORD">>,
      <<<<"g", "l", "o", "b", "a", "l">>, "KEYWORD">>,
      <<<<"i", "n", "p", "u", "t">>, "KEYWORD">>,
      <<<<"l", "e", "t">>, "KEYWORD">>,
      <<<<"n", "m", "o", "f">>, "KEYWORD">>,
      <<<<"n", "n", "u", "l", "l">>, "KEYWORD">>,
      <<<<"o", "r">>, "KEYWORD">>,
      <<<<"p", "r", "i", "n", "t">>, "KEYWORD">>,
      <<<<"r", "e", "c">>, "KEYWORD">>,
      <<<<"s", "t", "c">>, "KEYWORD">>,
      <<<<"s", "t", "r">>, "KEYWORD">>,
      <<<<"t", "h", "i", "s">>, "KEYWORD">>,
      <<<<"v", "a", "l">>, "KEYWORD">>,
      <<<<"v", "a", "r">>, "KEYWORD">>,
      <<<<"s", "w", "i", "t", "c", "h">>, "SWITCH">>,
      <<<<"c", "a", "s", "e">>, "CASE">>,
      <<<<"d", "e", "f", "a", "u", "l", "t">>, "DEFAULT">>,
      <<<<"b", "r", "e", "a", "k">>, "BREAK">>,
      <<<<"n", "e", "x", "t">>, "NEXT">>,
      <<<<"d", "o">>, "DO">>,
      <<<<"a", "s">>, "AS">>,
      <<<<"c", "l", "a", "s", "s">>, "CLASS">>,
      <<<<"s", "t", "r", "u", "c", "t">>, "STRUCT">>,
      <<<<"e", "n", "u", "m">>, "ENUM">>,
      <<<<"r", "e", "c", "o", "r", "d">>, "RECORD">>,
      <<<<"p", "u", "b">>, "PUB">>,
      <<<<"p", "r", "i", "v">>, "PRIV">>,
      <<<<"p", "r", "o", "t">>, "PROT">>,
      <<<<"r", "e", "q">>, "REQ">>,
      <<<<"g", "e", "t">>, "GET">>,
      <<<<"s", "e", "t">>, "SET">>,
      <<<<"i", "n", "i", "t">>, "INIT">>,
      <<<<"b", "a", "s", "e">>, "RESERVED_WORD">>,
      <<<<"c", "o", "n", "s", "t">>, "RESERVED_WORD">>,
      <<<<"e", "l", "s", "e">>, "RESERVED_WORD">>,
      <<<<"f", "o", "r">>, "RESERVED_WORD">>,
      <<<<"f", "o", "r", "e", "a", "c", "h">>, "RESERVED_WORD">>,
      <<<<"i", "f">>, "RESERVED_WORD">>,
      <<<<"i", "f", "a", "c", "e">>, "RESERVED_WORD">>,
      <<<<"i", "n">>, "RESERVED_WORD">>,
      <<<<"n", "e", "w">>, "RESERVED_WORD">>,
      <<<<"n", "s", "p", "a", "c", "e">>, "RESERVED_WORD">>,
      <<<<"n", "u", "l", "l">>, "RESERVED_WORD">>,
      <<<<"r", "d", "o">>, "RESERVED_WORD">>,
      <<<<"r", "e", "t", "u", "r", "n">>, "RESERVED_WORD">>,
      <<<<"u", "s", "e">>, "RESERVED_WORD">>,
      <<<<"w", "h", "i", "l", "e">>, "RESERVED_WORD">>,
      <<<<"b", "o", "o", "l">>, "TYPE">>,
      <<<<"c", "h", "a", "r">>, "TYPE">>,
      <<<<"d", "o", "u", "b", "l", "e">>, "TYPE">>,
      <<<<"i", "n", "t">>, "TYPE">>,
      <<<<"v", "o", "i", "d">>, "TYPE">>,
      <<<<"f", "a", "l", "s", "e">>, "BOOLEAN_LITERAL">>,
      <<<<"t", "r", "u", "e">>, "BOOLEAN_LITERAL">>,
      <<<<"a", "t">>, "NOISE_WORD">>,
      <<<<"i", "t", "s">>, "NOISE_WORD">>,
      <<<<"t", "h", "e", "n">>, "NOISE_WORD">>
    >>

\* the cases of token_type_to_string: <<type, text>>
TypeNames ==
    <<
      <<"KEYWORD", <<"K", "E", "Y", "W", "O", "R", "D">>>>,
      <<"RESERVED_WORD", <<"R", "E", "S", "E", "R", "V", "E", "D", "_", "W", "O", "R", "D">>>>,
      <<"TYPE", <<"T", "Y", "P", "E">>>>,
      <<"IDENTIFIER", <<"I", "D", "E", "N", "T", "I", "F", "I", "E", "R">>>>,
      <<"BOOLEAN_LITERAL", <<"B", "O", "O", "L", "E", "A", "N", "_", "L", "I", "T", "E", "R", "A", "L">>>>,
      <<"NOISE_WORD", <<"N", "O", "I", "S", "E", "_", "W", "O", "R", "D">>>>,
      <<"SWITCH", <<"S", "W", "I", "T", "C", "H">>>>,
      <<"CASE", <<"C", "A", "S", "E">>>>,
      <<"DEFAULT", <<"D", "E", "F", "A", "U", "L", "T">>>>,
      <<"BREAK", <<"B", "R", "E", "A", "K">>>>,
      <<"NEXT", <<"N", "E", "X", "T">>>>,
      <<"DO", <<"D", "O">>>>,
      <<"CLASS", <<"C", "L", "A", "S", "S">>>>,
      <<"STRUCT", <<"S", "T", "R", "U", "C", "T">>>>,
      <<"ENUM", <<"E", "N", "U", "M">>>>,
      <<"RECORD", <<"R", "E", "C", "O", "R", "D">>>>,
      <<"PUB", <<"P", "U", "B">>>>,
      <<"PRIV", <<"P", "R", "I", "V">>>>,
      <<"PROT", <<"P", "R", "O", "T">>>>,
      <<"REQ", <<"R", "E", "Q">>>>,
      <<"GET", <<"G", "E", "T">>>>,
      <<"SET", <<"S", "E", "T">>>>,
      <<"INIT", <<"I", "N", "I", "T">>>>,
      <<"AS", <<"A", "S">>>>,
      <<"NUMBER", <<"N", "U", "M", "B", "E", "R">>>>,
      <<"STRING_LITERAL", <<"S", "T", "R", "I", "N", "G", "_", "L", "I", "T", "E", "R", "A", "L">>>>,
      <<"CHAR_LITERAL", <<"C", "H", "A", "R", "_", "L", "I", "T", "E", "R", "A", "L">>>>,
      <<"PLUS", <<"P", "L", "U", "S">>>>,
      <<"MINUS", <<"M", "I", "N", "U", "S">>>>,
      <<"STAR", <<"S", "T", "A", "R">>>>,
      <<"SLASH", <<"S", "L", "A", "S", "H">>>>,
      <<"PERCENT", <<"P", "E", "R", "C", "E", "N", "T">>>>,
      <<"PLUS_PLUS", <<"P", "L", "U", "S", "_", "P", "L", "U", "S">>>>,
      <<"MINUS_MINUS", <<"M", "I", "N", "U", "S", "_", "M", "I", "N", "U", "S">>>>,
      <<"EQUAL", <<"E", "Q", "U", "A", "L">>>>,
      <<"PLUS_EQUAL", <<"P", "L", "U", "S", "_", "E", "Q", "U", "A", "L">>>>,
      <<"MINUS_EQUAL", <<"M", "I", "N", "U", "S", "_", "E", "Q", "U", "A", "L">>>>,
      <<"STAR_EQUAL", <<"S", "T", "A", "R", "_", "E", "Q", "U", "A", "L">>>>,
      <<"SLASH_EQUAL", <<"S", "L", "A", "S", "H", "_", "E", "Q", "U", "A", "L">>>>,
      <<"PERCENT_EQUAL", <<"P", "E", "R", "C", "E", "N", "T", "_", "E", "Q", "U", "A", "L">>>>,
      <<"EQUAL_EQUAL", <<"E", "Q", "U", "A", "L", "_", "E", "Q", "U", "A", "L">>>>,
      <<"NOT_EQUAL", <<"N", "O", "T", "_", "E", "Q", "U", "A", "L">>>>,
      <<"GREATER", <<"G", "R", "E", "A", "T", "E", "R">>>>,
      <<"LESS", <<"L", "E", "S", "S">>>>,
      <<"GREATER_EQUAL", <<"G", "R", "E", "A", "T", "E", "R", "_", "E", "Q", "U", "A", "L">>>>,
      <<"LESS_EQUAL", <<"L", "E", "S", "S", "_", "E", "Q", "U", "A", "L">>>>,
      <<"AND_AND", <<"A", "N", "D", "_", "A", "N", "D">>>>,
      <<"OR_OR", <<"O", "R", "_", "O", "R">>>>,
      <<"NOT", <<"N", "O", "T">>>>,
      <<"AND", <<"A", "N", "D">>>>,
      <<"OR", <<"O", "R">>>>,
      <<"XOR", <<"X", "O", "R">>>>,
      <<"TILDE", <<"T", "I", "L", "D", "E">>>>,
      <<"LEFT_PAREN", <<"L", "E", "F", "T", "_", "P", "A", "R", "E", "N">>>>,
      <<"RIGHT_PAREN", <<"R", "I", "G", "H", "T", "_", "P", "A", "R", "E", "N">>>>,
      <<"LEFT_BRACE", <<"L", "E", "F", "T", "_", "B", "R", "A", "C", "E">>>>,
      <<"RIGHT_BRACE", <<"R", "I", "G", "H", "T", "_", "B", "R", "A", "C", "E">>>>,
      <<"LEFT_BRACKET", <<"L", "E", "F", "T", "_", "B", "R", "A", "C", "K", "E", "T">>>>,
      <<"RIGHT_BRACKET", <<"R", "I", "G", "H", "T", "_", "B", "R", "A", "C", "K", "E", "T">>>>,
      <<"SEMICOLON", <<"S", "E", "M", "I", "C", "O", "L", "O", "N">>>>,
      <<"COMMA", <<"C", "O", "M", "M", "A">>>>,
      <<"DOT", <<"D", "O", "T">>>>,
      <<"COLON", <<"C", "O", "L", "O", "N">>>>,
      <<"QUESTION", <<"Q", "U", "E", "S", "T", "I", "O", "N">>>>,
      <<"COMMENT", <<"C", "O", "M", "M", "E", "N", "T">>>>,
      <<"INVALID", <<"I", "N", "V", "A", "L", "I", "D">>>>,
      <<"TOKEN_EOF", <<"E", "O", "F">>>>
    >>

\* the comparisons of token_type_from_string, in order: <<text, type>>
NamedTypes ==
    <<
      <<<<"K", "E", "Y", "W", "O", "R", "D">>, "KEYWORD">>,
      <<<<"R", "E", "S", "E", "R", "V", "E", "D", "_", "W", "O", "R", "D">>, "RESERVED_WORD">>,
      <<<<"T", "Y", "P", "E">>, "TYPE">>,
      <<<<"I", "D", "E", "N", "T", "I", "F", "I", "E", "R">>, "IDENTIFIER">>,
      <<<<"B", "O", "O", "L", "E", "A", "N", "_", "L", "I", "T", "E", "R", "A", "L">>, "BOOLEAN_LITERAL">>,
      <<<<"N", "O", "I", "S", "E", "_", "W", "O", "R", "D">>, "NOISE_WORD">>,
      <<<<"S", "W", "I", "T", "C", "H">>, "SWITCH">>,
      <<<<"C", "A", "S", "E">>, "CASE">>,
      <<<<"D", "E", "F", "A", "U", "L", "T">>, "DEFAULT">>,
      <<<<"B", "R", "E", "A", "K">>, "BREAK">>,
      <<<<"N", "E", "X", "T">>, "NEXT">>,
      <<<<"D", "O">>, "DO">>,
      <<<<"C", "L", "A", "S", "S">>, "CLASS">>,
      <<<<"S", "T", "R", "U", "C", "T">>, "STRUCT">>,
      <<<<"E", "N", "U", "M">>, "ENUM">>,
      <<<<"R", "E", "C", "O", "R", "D">>, "RECORD">>,
      <<<<"P", "U", "B">>, "PUB">>,
      <<<<"P", "R", "I", "V">>, "PRIV">>,
      <<<<"P", "R", "O", "T">>, "PROT">>,
      <<<<"R", "E", "Q">>, "REQ">>,
      <<<<"G", "E", "T">>, "GET">>,
      <<<<"S", "E", "T">>, "SET">>,
      <<<<"I", "N", "I", "T">>, "INIT">>,
      <<<<"A", "S">>, "AS">>,
      <<<<"N", "U", "M", "B", "E", "R">>, "NUMBER">>,
      <<<<"S", "T", "R", "I", "N", "G", "_", "L", "I", "T", "E", "R", "A", "L">>, "STRING_LITERAL">>,
      <<<<"C", "H", "A", "R", "_", "L", "I", "T", "E", "R", "A", "L">>, "CHAR_LITERAL">>,
      <<<<"P", "L", "U", "S">>, "PLUS">>,
      <<<<"M", "I", "N", "U", "S">>, "MINUS">>,
      <<<<"S", "T", "A", "R">>, "STAR">>,
      <<<<"S", "L", "A", "S", "H">>, "SLASH">>,
      <<<<"P", "E", "R", "C", "E", "N", "T">>, "PERCENT">>,
      <<<<"P", "L", "U", "S", "_", "P", "L", "U", "S">>, "PLUS_PLUS">>,
      <<<<"M", "I", "N", "U", "S", "_", "M", "I", "N", "U", "S">>, "MINUS_MINUS">>,
      <<<<"E", "Q", "U", "A", "L">>, "EQUAL">>,
      <<<<"P", "L", "U", "S", "_", "E", "Q", "U", "A", "L">>, "PLUS_EQUAL">>,
      <<<<"M", "I", "N", "U", "S", "_", "E", "Q", "U", "A", "L">>, "MINUS_EQUAL">>,
      <<<<"S", "T", "A", "R", "_", "E", "Q", "U", "A", "L">>, "STAR_EQUAL">>,
      <<<<"S", "L", "A", "S", "H", "_", "E", "Q", "U", "A", "L">>, "SLASH_EQUAL">>,
      <<<<"P", "E", "R", "C", "E", "N", "T", "_", "E", "Q", "U", "A", "L">>, "PERCENT_EQUAL">>,
      <<<<"E", "Q", "U", "A", "L", "_", "E", "Q", "U", "A", "L">>, "EQUAL_EQUAL">>,
      <<<<"N", "O", "T", "_", "E", "Q", "U", "A", "L">>, "NOT_EQUAL">>,
      <<<<"G", "R", "E", "A", "T", "E", "R">>, "GREATER">>,
      <<<<"L", "E", "S", "S">>, "LESS">>,
      <<<<"G", "R", "E", "A", "T", "E", "R", "_", "E", "Q", "U", "A", "L">>, "GREATER_EQUAL">>,
      <<<<"L", "E", "S", "S", "_", "E", "Q", "U", "A", "L">>, "LESS_EQUAL">>,
      <<<<"A", "N", "D", "_", "A", "N", "D">>, "AND_AND">>,
      <<<<"O", "R", "_", "O", "R">>, "OR_OR">>,
      <<<<"N", "O", "T">>, "NOT">>,
      <<<<"A", "N", "D">>, "AND">>,
      <<<<"O", "R">>, "OR">>,
      <<<<"X", "O", "R">>, "XOR">>,
      <<<<"T", "I", "L", "D", "E">>, "TILDE">>,
      <<<<"L", "E", "F", "T", "_", "P", "A", "R", "E", "N">>, "LEFT_PAREN">>,
      <<<<"R", "I", "G", "H", "T", "_", "P", "A", "R", "E", "N">>, "RIGHT_PAREN">>,
      <<<<"L", "E", "F", "T", "_", "B", "R", "A", "C", "E">>, "LEFT_BRACE">>,
      <<<<"R", "I", "G", "H", "T", "_", "B", "R", "A", "C", "E">>, "RIGHT_BRACE">>,
      <<<<"L", "E", "F", "T", "_", "B", "R", "A", "C", "K", "E", "T">>, "LEFT_BRACKET">>,
      <<<<"R", "I", "G", "H", "T", "_", "B", "R", "A", "C", "K", "E", "T">>, "RIGHT_BRACKET">>,
      <<<<"S", "E", "M", "I", "C", "O", "L", "O", "N">>, "SEMICOLON">>,
      <<<<"C", "O", "M", "M", "A">>, "COMMA">>,
      <<<<"D", "O", "T">>, "DOT">>,
      <<<<"C", "O", "L", "O", "N">>, "COLON">>,
      <<<<"Q", "U", "E", "S", "T", "I", "O", "N">>, "QUESTION">>,
      <<<<"C", "O", "M", "M", "E", "N", "T">>, "COMMENT">>,
      <<<<"E", "O", "F">>, "TOKEN_EOF">>
    >>

\* the lines write_symbol_table prints before the first row
Header ==
    <<
      <<"C", "Y", "T", "H", "O", "N", "I", "C", " ", "L", "E", "X", "I", "C", "A", "L", " ", "A", "N", "A", "L", "Y", "Z", "E", "R", " ", "-", " ", "S", "Y", "M", "B", "O", "L", " ", "T", "A", "B", "L", "E">> \o <<NL>>,
      <<"=", "=", "=", "=", "=", "=", "=", "=", "=", "=", "=", "=", "=", "=", "=", "=", "=", "=", "=", "=", "=", "=", "=", "=", "=", "=", "=", "=", "=", "=", "=", "=", "=", "=", "=", "=", "=", "=", "=", "=">> \o <<NL>>,
      <<>> \o <<NL>>,
      <<"L", "I", "N", "E", " ", "|", " ", "C", "O", "L", " ", "|", " ", "T", "Y", "P", "E", " ", " ", " ", " ", " ", " ", " ", " ", " ", " ", " ", " ", " ", " ", "|", " ", "L", "E", "X", "E", "M", "E", " ", " ", " ", " ", " ", " ", " ", " ", " ", " ", " ", " ", " ", " ", " ", " ", " ", " ", " ", " ", " ", " ", " ", " ", "|", " ", "R", "A", "W">> \o <<NL>>,
      <<"-", "-", "-", "-", "-", "|", "-", "-", "-", "-", "-", "|", "-", "-", "-", "-", "-", "-", "-", "-", "-", "-", "-", "-", "-", "-", "-", "-", "-", "-", "-", "|", "-", "-", "-", "-", "-", "-", "-", "-", "-", "-", "-", "-", "-", "-", "-", "-", "-", "-", "-", "-", "-", "-", "-", "-", "-", "-", "-", "-", "-", "-", "-", "|", "-", "-", "-", "-", "-", "-", "-", "-", "-", "-", "-", "-", "-", "-", "-", "-", "-", "-", "-", "-", "-", "-", "-", "-", "-", "-", "-", "-", "-", "-", "-", "-", "-", "-">> \o <<NL>>
    >>

\* the words the header of the file lists as contextual keywords
ContextualKeywords ==
    {<<"a", "n", "d">>, <<"a", "r", "g", "s">>, <<"a", "s", "y", "n", "c">>, <<"d", "y", "n">>,
     <<"g", "e", "t">>, <<"g", "l", "o", "b", "a", "l">>, <<"i", "n", "i", "t">>, <<"i", "n", "p", "u", "t">>,
     <<"l", "e", "t">>, <<"n", "m", "o", "f">>, <<"n", "n", "u", "l", "l">>, <<"o", "r">>,
     <<"p", "r", "i", "n", "t">>, <<"r", "e", "c">>, <<"r", "e", "q">>, <<"s", "e", "t">>,
     <<"s", "t", "c">>, <<"s", "t", "r">>, <<"s", "t", "r", "u", "c", "t">>, <<"s", "w", "i", "t", "c", "h">>,
     <<"t", "h", "i", "s">>, <<"v", "a", "l">>, <<"v", "a", "r">>}

\* the words the header of the file lists as reserved words
ReservedWords ==
    {<<"a", "s">>, <<"b", "a", "s", "e">>, <<"b", "r", "e", "a", "k">>, <<"c", "a", "s", "e">>,
     <<"c", "l", "a", "s", "s">>, <<"c", "o", "n", "s", "t">>, <<"d", "e", "f", "a", "u", "l", "t">>, <<"d", "o">>,
     <<"e", "l", "s", "e">>, <<"e", "n", "u", "m">>, <<"f", "o", "r">>, <<"f", "o", "r", "e", "a", "c", "h">>,
     <<"i", "f">>, <<"i", "f", "a", "c", "e">>, <<"i", "n">>, <<"n", "e", "w">>,
     <<"n", "e", "x", "t">>, <<"n", "s", "p", "a", "c", "e">>, <<"n", "u", "l", "l">>, <<"p", "r", "i", "v">>,
     <<"p", "r", "o", "t">>, <<"p", "u", "b">>, <<"r", "d", "o">>, <<"r", "e", "c", "o", "r", "d">>,
     <<"r", "e", "t", "u", "r", "n">>, <<"u", "s", "e">>, <<"w", "h", "i", "l", "e">>}

\* the calls of trie_add for the entries from the k-th to the n-th of the table
RECURSIVE trie_add_all(_, _, _)
trie_add_all(trie, k, n) ==
    IF k > n THEN trie
    ELSE trie_add_all(trie_add(trie, KeywordTable[k][1], KeywordTable[k][2]), k + 1, n)

\* after the contextual keywords
contextual_keywords == trie_add_all(trie_create, 1, 17)

\* after the new token mappings
token_mappings == trie_add_all(contextual_keywords, 18, 35)

\* after the reserved words
reserved_words == trie_add_all(token_mappings, 36, 50)

\* after the types, the boolean literals and the noise words
initialize_keywords == trie_add_all(reserved_words, 51, Len(KeywordTable))

is_letter(c) == position(c, Lower) # 0 \/ position(c, Upper) # 0

is_whitespace(c) == c \in {SP, TAB, CR, NL}

is_identifier_start(c) == is_letter(c) \/ c = "_"

is_identifier_char(c) == is_letter(c) \/ is_digit(c) \/ c = "_"

str_to_lower(str) == [i \in 1..Len(str) |-> to_lower(str[i])]

\* the trie of a lexer is initialize_keywords, the same for every lexer; ub:
\* the scan computed a negative text length
lexer_create(source) ==
    [source |-> source, length |-> Len(source), index |-> 0, line |-> 1, column |-> 1,
     ub |-> FALSE]

lexer_is_at_end(l) == l.index >= l.length

lexer_peek(l, offset) ==
    IF l.index + offset >= l.length THEN NUL
    ELSE l.source[l.index + offset + 1]

lexer_current(l) == lexer_peek(l, 0)

lexer_advance(l) ==
    IF l.index < l.length
    THEN IF l.source[l.index + 1] = NL
         THEN [l EXCEPT !.line = @ + 1, !.column = 1, !.index = @ + 1]
         ELSE [l EXCEPT !.column = @ + 1, !.index = @ + 1]
    ELSE l

create_token(type, lexeme, raw, line, col) ==
    [type |-> type, lexeme |-> c_str(lexeme), raw |-> c_str(raw), line |-> line, column |-> col]

\* strncpy(text, &lexer->source[start], length)
source_text(l, start, length) == SubSeq(l.source, start + 1, start + length)

\* what a call of lexer_next_token leaves: the lexer and the token returned
Scanned(l, token) == [lexer |-> l, token |-> token]

RECURSIVE line_comment_end(_)
line_comment_end(l) ==
    IF ~lexer_is_at_end(l) /\ lexer_current(l) # NL
    THEN line_comment_end(lexer_advance(l))
    ELSE l

line_comment_token(l, end) ==
    Scanned(end, create_token("COMMENT",
                              source_text(l, l.index + 2, end.index - l.index - 2),
                              source_text(l, l.index, end.index - l.index),
                              l.line, l.column))

line_comment(l) ==
    line_comment_token(l, line_comment_end(lexer_advance(lexer_advance(l))))

RECURSIVE block_comment_end(_)
block_comment_end(l) ==
    IF lexer_is_at_end(l) THEN l
    ELSE IF lexer_current(l) = "*" /\ lexer_peek(l, 1) = "/"
    THEN lexer_advance(lexer_advance(l))
    ELSE block_comment_end(lexer_advance(l))

\* malloc(length - 3) and strncpy(.., length - 4) with length < 4 are undefined
block_comment_token(l, end) ==
    IF end.index - l.index < 4
    THEN Scanned([end EXCEPT !.ub = TRUE],
                 create_token("COMMENT", << >>,
                              source_text(l, l.index, end.index - l.index),
                              l.line, l.column))
    ELSE Scanned(end, create_token("COMMENT",
                                   source_text(l, l.index + 2, end.index - l.index - 4),
                                   source_text(l, l.index, end.index - l.index),
                                   l.line, l.column))

block_comment(l) ==
    block_comment_token(l, block_comment_end(lexer_advance(lexer_advance(l))))

RECURSIVE identifier_end(_)
identifier_end(l) ==
    IF ~lexer_is_at_end(l) /\ is_identifier_char(lexer_current(l))
    THEN identifier_end(lexer_advance(l))
    ELSE l

\* the loop over raw from character i (counted from 0) in state: the i and
\* the state it ends with
RECURSIVE trie_walk(_, _, _, _)
trie_walk(trie, raw, i, state) ==
    IF i >= Len(raw) THEN [i |-> i, state |-> state]
    ELSE IF trie_move(trie, state, to_lower(raw[i + 1])) = -1 THEN [i |-> i, state |-> -1]
    ELSE trie_walk(trie, raw, i + 1, trie_move(trie, state, to_lower(raw[i + 1])))

walk_type(trie, raw, walk) ==
    IF walk.i = Len(raw) THEN trie_try_get_type(trie, walk.state, "IDENTIFIER")
    ELSE "IDENTIFIER"

identifier_type(trie, raw) ==
    IF \A i \in 1..Len(raw) : is_letter(raw[i])
    THEN walk_type(trie, raw, trie_walk(trie, raw, 0, 0))
    ELSE "IDENTIFIER"

identifier_lexeme(type, lower) ==
    IF type = "IDENTIFIER" /\ Len(lower) > IDENTIFIER_MAX_LENGTH
    THEN SubSeq(lower, 1, IDENTIFIER_MAX_LENGTH)
    ELSE lower

identifier_token_mut(l, end, raw) ==
    Scanned(end, create_token(identifier_type(initialize_keywords, raw), str_to_lower(raw),
                              raw, l.line, l.column))

identifier_token(l, end, raw) ==
    Scanned(end, create_token(identifier_type(initialize_keywords, raw),
                              identifier_lexeme(identifier_type(initialize_keywords, raw),
                                                str_to_lower(raw)),
                              raw, l.line, l.column))

identifier_text(l, end) ==
    identifier_token(l, end, source_text(l, l.index, end.index - l.index))

identifier(l) == identifier_text(l, identifier_end(l))

RECURSIVE digits_end(_)
digits_end(l) ==
    IF ~lexer_is_at_end(l) /\ is_digit(lexer_current(l))
    THEN digits_end(lexer_advance(l))
    ELSE l

number_fraction(current, l) ==
    IF current # "." /\ ~lexer_is_at_end(l) /\ lexer_current(l) = "."
       /\ is_digit(lexer_peek(l, 1))
    THEN digits_end(lexer_advance(l))
    ELSE l

number_sign(l) ==
    IF ~lexer_is_at_end(l) /\ lexer_current(l) \in {"+", "-"}
    THEN lexer_advance(l)
    ELSE l

number_exponent(l) ==
    IF ~lexer_is_at_end(l) /\ lexer_current(l) \in {"e", "E"}
    THEN digits_end(number_sign(lexer_advance(l)))
    ELSE l

number_token(l, end, text) ==
    Scanned(end, create_token("NUMBER", text, text, l.line, l.column))

number_text(l, end) ==
    number_token(l, end, source_text(l, l.index, end.index - l.index))

number(l) ==
    number_text(l,
        number_exponent(number_fraction(lexer_current(l),
            digits_end(IF lexer_current(l) = "." THEN lexer_advance(l) ELSE l))))

\* the character a backslash followed by next stands for in a literal
escaped(next) == IF next = "n" THEN NL ELSE IF next = "t" THEN TAB ELSE next

\* one turn of the loop of the string literal: the lexer and the buffer after it
string_char(l, buffer) ==
    IF lexer_current(l) = BS
    THEN [lexer |-> lexer_advance(lexer_advance(l)),
          buffer |-> Append(buffer, escaped(lexer_peek(l, 1)))]
    ELSE [lexer |-> lexer_advance(l), buffer |-> Append(buffer, lexer_current(l))]

RECURSIVE string_end(_)
string_end(s) ==
    IF lexer_is_at_end(s.lexer) \/ lexer_current(s.lexer) = NL THEN s
    ELSE IF lexer_current(s.lexer) = DQ THEN [s EXCEPT !.lexer = lexer_advance(@)]
    ELSE IF Len(s.buffer) + 1 >= MAX_LEXEME_LENGTH - 1 THEN string_char(s.lexer, s.buffer)
    ELSE string_end(string_char(s.lexer, s.buffer))

string_token(l, s) ==
    Scanned(s.lexer, create_token("STRING_LITERAL", s.buffer,
                                  source_text(l, l.index, s.lexer.index - l.index),
                                  l.line, l.column))

string_literal(l) ==
    string_token(l, string_end([lexer |-> lexer_advance(l), buffer |-> << >>]))

\* the lexer and the value after the character of a char literal
char_value(l) ==
    IF lexer_is_at_end(l) THEN [lexer |-> l, value |-> NUL]
    ELSE IF lexer_current(l) # BS
    THEN [lexer |-> lexer_advance(l), value |-> lexer_current(l)]
    ELSE IF lexer_is_at_end(lexer_advance(l))
    THEN [lexer |-> lexer_advance(l), value |-> NUL]
    ELSE [lexer |-> lexer_advance(lexer_advance(l)),
          value |-> escaped(lexer_peek(l, 1))]

char_quote(l) ==
    IF ~lexer_is_at_end(l) /\ lexer_current(l) = SQ THEN lexer_advance(l)
    ELSE l

char_token(l, end, value) ==
    Scanned(end, create_token("CHAR_LITERAL", <<value>>,
                              source_text(l, l.index, end.index - l.index),
                              l.line, l.column))

char_closed(l, c) == char_token(l, char_quote(c.lexer), c.value)

char_literal(l) == char_closed(l, char_value(lexer_advance(l)))

\* the operators of two characters, in the order they are tested
Operators2 ==
    << <<"+", "=", "PLUS_EQUAL">>, <<"-", "=", "MINUS_EQUAL">>, <<"*", "=", "STAR_EQUAL">>,
       <<"/", "=", "SLASH_EQUAL">>, <<"%", "=", "PERCENT_EQUAL">>, <<"+", "+", "PLUS_PLUS">>,
       <<"-", "-", "MINUS_MINUS">>, <<"=", "=", "EQUAL_EQUAL">>, <<"!", "=", "NOT_EQUAL">>,
       <<">", "=", "GREATER_EQUAL">>, <<"<", "=", "LESS_EQUAL">>, <<"&", "&", "AND_AND">>,
       <<"|", "|", "OR_OR">> >>

\* the operators and delimiters of one character
Operators1 ==
    << <<"+", "PLUS">>, <<"-", "MINUS">>, <<"*", "STAR">>, <<"/", "SLASH">>,
       <<"%", "PERCENT">>, <<"=", "EQUAL">>, <<">", "GREATER">>, <<"<", "LESS">>,
       <<"!", "NOT">>, <<"&", "AND">>, <<"|", "OR">>, <<"^", "XOR">>, <<"~", "TILDE">>,
       <<"(", "LEFT_PAREN">>, <<")", "RIGHT_PAREN">>, <<"{", "LEFT_BRACE">>,
       <<"}", "RIGHT_BRACE">>, <<"[", "LEFT_BRACKET">>, <<"]", "RIGHT_BRACKET">>,
       <<";", "SEMICOLON">>, <<",", "COMMA">>, <<".", "DOT">>, <<":", "COLON">>,
       <<"?", "QUESTION">> >>

is_operator(current) == \E k \in 1..Len(Operators1) : Operators1[k][1] = current

is_operator2(current, next) ==
    \E k \in 1..Len(Operators2) : Operators2[k][1] = current /\ Operators2[k][2] = next

operator_type(current, next) ==
    IF is_operator2(current, next)
    THEN Operators2[CHOOSE k \in 1..Len(Operators2) :
                        Operators2[k][1] = current /\ Operators2[k][2] = next][3]
    ELSE Operators1[CHOOSE k \in 1..Len(Operators1) : Operators1[k][1] = current][2]

operator_token(l, end, type) ==
    Scanned(end, create_token(type,
                              source_text(l, l.index, end.index - l.index),
                              source_text(l, l.index, end.index - l.index),
                              l.line, l.column))

operator(l) ==
    operator_token(l,
        IF is_operator2(lexer_current(l), lexer_peek(l, 1))
        THEN lexer_advance(lexer_advance(l)) ELSE lexer_advance(l),
        operator_type(lexer_current(l), lexer_peek(l, 1)))

invalid(l) ==
    Scanned(lexer_advance(l),
            create_token("INVALID", <<lexer_current(l)>>, <<lexer_current(l)>>,
                         l.line, l.column))

RECURSIVE lexer_next_token(_)
lexer_next_token(l) ==
    IF lexer_is_at_end(l)
    THEN Scanned(l, create_token("TOKEN_EOF", << >>, << >>, l.line, l.column))
    ELSE IF is_whitespace(lexer_current(l)) THEN lexer_next_token(lexer_advance(l))
    ELSE IF lexer_current(l) = "/" /\ lexer_peek(l, 1) = "/" THEN line_comment(l)
    ELSE IF lexer_current(l) = "/" /\ lexer_peek(l, 1) = "*" THEN block_comment(l)
    ELSE IF is_identifier_start(lexer_current(l)) THEN identifier(l)
    ELSE IF is_digit(lexer_current(l))
            \/ (lexer_current(l) = "." /\ is_digit(lexer_peek(l, 1)))
    THEN number(l)
    ELSE IF lexer_current(l) = DQ THEN string_literal(l)
    ELSE IF lexer_current(l) = SQ THEN char_literal(l)
    ELSE IF is_operator(lexer_current(l)) THEN operator(l)
    ELSE invalid(l)

-----------------------------------------------------------------------------
(* The symbol table file: a sequence of lines, each ending with NL.  The  *)
(* buffers of the writer (1024) and of the reader (2048, 64, 512, 1024)   *)
(* are longer than any line of the sources scanned here.                  *)

token_type_to_string(type) ==
    IF \E k \in 1..Len(TypeNames) : TypeNames[k][1] = type
    THEN TypeNames[CHOOSE k \in 1..Len(TypeNames) : TypeNames[k][1] = type][2]
    ELSE <<"U", "N", "K", "N", "O", "W", "N">>

token_type_from_string(str) ==
    IF \E k \in 1..Len(NamedTypes) : NamedTypes[k][1] = str
    THEN NamedTypes[CHOOSE k \in 1..Len(NamedTypes) : NamedTypes[k][1] = str][2]
    ELSE "INVALID"

RECURSIVE escape_for_output(_)
escape_for_output(source) ==
    IF source = << >> THEN << >>
    ELSE (IF Head(source) = NL THEN <<BS, "n">>
          ELSE IF Head(source) = CR THEN <<BS, "r">>
          ELSE IF Head(source) = TAB THEN <<BS, "t">>
          ELSE <<Head(source)>>) \o escape_for_output(Tail(source))

RECURSIVE unescape_string(_)
unescape_string(src) ==
    IF src = << >> THEN << >>
    ELSE IF Head(src) = BS /\ Len(src) > 1
    THEN <<(IF src[2] = "n" THEN NL
            ELSE IF src[2] = "r" THEN CR
            ELSE IF src[2] = "t" THEN TAB
            ELSE src[2])>> \o unescape_string(SubSeq(src, 3, Len(src)))
    ELSE <<Head(src)>> \o unescape_string(Tail(src))

spaces(n) == [i \in 1..n |-> SP]

\* the conversions %4d and %3d of a number that is not negative
right_aligned(n, width) == spaces(width - Len(itoa(n))) \o itoa(n)

\* the conversions %-17s and %-29s
left_aligned(str, width) == str \o spaces(width - Len(str))

\* the line fprintf prints for a token
table_row(token) ==
    right_aligned(token.line, 4) \o <<SP, BAR, SP>>
    \o right_aligned(token.column, 3) \o <<SP, BAR, SP>>
    \o left_aligned(token_type_to_string(token.type), 17) \o <<SP, BAR, SP>>
    \o left_aligned(escape_for_output(token.lexeme), 29) \o <<SP, BAR, SP>>
    \o escape_for_output(token.raw) \o <<NL>>

\* the lines printed after the last row
table_footer(n) ==
    << <<NL>>,
       <<"T", "o", "t", "a", "l", " ", "t", "o", "k", "e", "n", "s", ":", " ">> \o itoa(n) \o <<NL>>,
       <<"E", "N", "D", " ", "O", "F", " ", "S", "Y", "M", "B", "O", "L", " ",
         "T", "A", "B", "L", "E", NL>> >>

\* strncmp(line, prefix, strlen(prefix)) == 0
has_prefix(line, prefix) ==
    Len(line) >= Len(prefix) /\ SubSeq(line, 1, Len(prefix)) = prefix

\* strchr(p + 1, '|') in line, p counted from 1 (0: from the start); 0 for NULL
next_bar(line, p) ==
    IF \E i \in (p + 1)..Len(line) : line[i] = BAR
    THEN CHOOSE i \in (p + 1)..Len(line) :
             line[i] = BAR /\ \A k \in (p + 1)..(i - 1) : line[k] # BAR
    ELSE 0

\* atoi: white space, a sign, then the leading run of digits
RECURSIVE atoi_text(_)
atoi_text(str) ==
    IF str # << >> /\ is_whitespace(Head(str)) THEN atoi_text(Tail(str))
    ELSE IF str # << >> /\ Head(str) = "-" THEN 0 - atoi_from(str, 2, 0)
    ELSE IF str # << >> /\ Head(str) = "+" THEN atoi_from(str, 2, 0)
    ELSE atoi_from(str, 1, 0)

RECURSIVE skip_leading(_, _)
skip_leading(str, chars) ==
    IF str # << >> /\ Head(str) \in chars THEN skip_leading(Tail(str), chars) ELSE str

RECURSIVE drop_trailing(_, _)
drop_trailing(str, chars) ==
    IF str # << >> /\ str[Len(str)] \in chars
    THEN drop_trailing(SubSeq(str, 1, Len(str) - 1), chars)
    ELSE str

\* a field of a line as the reader trims it: leading spaces, then trailing chars
trimmed(str, chars) == drop_trailing(skip_leading(str, {SP}), chars)

\* the token the reader makes of a line cut at the bars p1 .. p4
row_token(line, p1, p2, p3, p4) ==
    create_token(token_type_from_string(trimmed(SubSeq(line, p2 + 1, p3 - 1), {SP, NL})),
                 unescape_string(trimmed(SubSeq(line, p3 + 1, p4 - 1), {SP})),
                 unescape_string(trimmed(SubSeq(line, p4 + 1, Len(line)), {SP, NL})),
                 atoi_text(SubSeq(line, 1, p1 - 1)),
                 atoi_text(SubSeq(line, p1 + 1, p2 - 1)))

row_cut3(line, p1, p2, p3) ==
    IF p3 = 0 \/ next_bar(line, p3) = 0 THEN << >>
    ELSE IF row_token(line, p1, p2, p3, next_bar(line, p3)).type = "COMMENT" THEN << >>
    ELSE <<row_token(line, p1, p2, p3, next_bar(line, p3))>>

row_cut2(line, p1, p2) == IF p2 = 0 THEN << >> ELSE row_cut3(line, p1, p2, next_bar(line, p2))

row_cut1(line, p1) == IF p1 = 0 THEN << >> ELSE row_cut2(line, p1, next_bar(line, p1))

\* the tokens one turn of the reader's loop adds to the list: none or one
read_row(line) == row_cut1(line, next_bar(line, 0))

\* the loop of the reader over the lines from the k-th on
RECURSIVE read_rows(_, _)
read_rows(file, k) ==
    IF k > Len(file) THEN << >>
    ELSE IF has_prefix(file[k], <<"T", "o", "t", "a", "l", " ", "t", "o", "k", "e", "n", "s", ":">>)
    THEN << >>
    ELSE IF has_prefix(file[k], <<"E", "N", "D", " ", "O", "F", " ", "S", "Y", "M", "B", "O", "L",
                                  " ", "T", "A", "B", "L", "E">>)
    THEN << >>
    ELSE read_row(file[k]) \o read_rows(file, k + 1)

\* the first four lines are skipped
read_tokens_from_symbol_table(file) == read_rows(file, 5)

-----------------------------------------------------------------------------
(* Token streams.  The tokens are the ones the scanner produces for the    *)
(* source text: a word of the keyword table with the category the table    *)
(* gives it, any other word as IDENTIFIER, a number as NUMBER, an operator *)
(* or delimiter with its own category.  The list holds no TOKEN_EOF: the   *)
(* symbol table ends before it.                                            *)

KW(w) == Tok("KEYWORD", w)
RW(w) == Tok("RESERVED_WORD", w)
TY(w) == Tok("TYPE", w)
ID(w) == Tok("IDENTIFIER", w)
NUM(n) == Tok("NUMBER", itoa(n))
LP == Tok("LEFT_PAREN", <<"(">>)
RP == Tok("RIGHT_PAREN", <<")">>)
LB == Tok("LEFT_BRACE", <<"{">>)
RB == Tok("RIGHT_BRACE", <<"}">>)
SEMI == Tok("SEMICOLON", <<";">>)
COLON == Tok("COLON", <<":">>)
EQ == Tok("EQUAL", <<"=">>)
PLUS == Tok("PLUS", <<"+">>)
MINUS == Tok("MINUS", <<"-">>)
SLASH == Tok("SLASH", <<"/">>)
LESS == Tok("LESS", <<"<">>)
GREATER == Tok("GREATER", <<">">>)
PLUSPLUS == Tok("PLUS_PLUS", <<"+", "+">>)
PLUSEQ == Tok("PLUS_EQUAL", <<"+", "=">>)
T_int == TY(<<"i", "n", "t">>)
T_switch == Tok("SWITCH", <<"s", "w", "i", "t", "c", "h">>)
T_case == Tok("CASE", <<"c", "a", "s", "e">>)
T_default == Tok("DEFAULT", <<"d", "e", "f", "a", "u", "l", "t">>)
T_break == Tok("BREAK", <<"b", "r", "e", "a", "k">>)
T_do == Tok("DO", <<"d", "o">>)
T_class == Tok("CLASS", <<"c", "l", "a", "s", "s">>)
T_struct == Tok("STRUCT", <<"s", "t", "r", "u", "c", "t">>)
T_record == Tok("RECORD", <<"r", "e", "c", "o", "r", "d">>)
T_enum == Tok("ENUM", <<"e", "n", "u", "m">>)
T_get == Tok("GET", <<"g", "e", "t">>)
T_set == Tok("SET", <<"s", "e", "t">>)

\* the names the programs use
V_x == <<"x">>
V_i == <<"i">>
V_j == <<"j">>
V_r == <<"r">>

\* print(n);  print(name);
PrintNum(n) == <<KW(W_print), LP, NUM(n), RP, SEMI>>

PrintVar(name) == <<KW(W_print), LP, ID(name), RP, SEMI>>

\* let name = n;
Let(name, n) == <<KW(W_let), ID(name), EQ, NUM(n), SEMI>>

\* name = name + 1;
Increment(name) == <<ID(name), EQ, ID(name), PLUS, NUM(1), SEMI>>

\* { body }
Braces(body) == <<LB>> \o body \o <<RB>>

\* if (cond) s1 else s2
IfElse(cond, s1, s2) == <<RW(W_if), LP>> \o cond \o <<RP>> \o s1 \o <<RW(W_else)>> \o s2

\* while (name < N) body
While(name, N, body) == <<RW(W_while), LP, ID(name), LESS, NUM(N), RP>> \o body

\* for (int name = 0; name < N; name++) body
For(name, N, body) ==
    <<RW(W_for), LP, T_int, ID(name), EQ, NUM(0), SEMI, ID(name), LESS, NUM(N), SEMI,
      ID(name), PLUSPLUS, RP>> \o body

\* do { body } while (name < N);
DoWhile(name, N, body) ==
    <<T_do, LB>> \o body \o <<RB, RW(W_while), LP, ID(name), LESS, NUM(N), RP, SEMI>>

\* let i = 0; while (i < N) { print(i); i = i + 1; }
WhileProg(N) == Let(V_i, 0) \o While(V_i, N, Braces(PrintVar(V_i) \o Increment(V_i)))

\* for (int j = 0; j < N; j++) { print(j); }
ForProg(N) == For(V_j, N, Braces(PrintVar(V_j)))

\* let i = 0; do { print(i); i = i + 1; } while (i < N);
DoWhileProg(N) == Let(V_i, 0) \o DoWhile(V_i, N, PrintVar(V_i) \o Increment(V_i))

\* if (c1) { if (c2) print(1); else print(2); } else { if (c2) print(3); else print(4); }
NestedIfProg(c1, c2) ==
    IfElse(<<NUM(c1)>>, Braces(IfElse(<<NUM(c2)>>, PrintNum(1), PrintNum(2))),
                        Braces(IfElse(<<NUM(c2)>>, PrintNum(3), PrintNum(4))))

\* let i = 0; if (c) <loop> else print(9);  with the loop a while, for or do-while
\* over N turns that prints and counts
GuardedLoopProg(kind, c, N) ==
    Let(V_i, 0) \o
    IfElse(<<NUM(c)>>,
           IF kind = "while" THEN While(V_i, N, Braces(PrintVar(V_i) \o Increment(V_i)))
           ELSE IF kind = "for" THEN For(V_j, N, Braces(PrintVar(V_j)))
           ELSE DoWhile(V_i, N, PrintVar(V_i) \o <<ID(V_i), PLUSPLUS, SEMI>>),
           PrintNum(9))

\* let i = 0; while (i < N) { if (i < 1) print(i); else input(x); i = i + 1; }
LoopedIfProg(N) ==
    Let(V_i, 0) \o
    While(V_i, N, Braces(IfElse(<<ID(V_i), LESS, NUM(1)>>, PrintVar(V_i),
                              <<KW(W_input), LP, ID(V_x), RP, SEMI>>) \o Increment(V_i)))

\* let x = s; switch (x) { case 1: print(1); break; case 2: print(2); break;
\*                         default: print(0); }
SwitchProg(s) ==
    Let(V_x, s) \o <<T_switch, LP, ID(V_x), RP, LB,
                   T_case, NUM(1), COLON>> \o PrintNum(1) \o <<T_break, SEMI,
                   T_case, NUM(2), COLON>> \o PrintNum(2) \o <<T_break, SEMI,
                   T_default, COLON>> \o PrintNum(0) \o <<RB>>

\* the ways ConstProg writes to x:  x = 6;  x += 1;  x++;  ++x;
Writes ==
    <<(<<ID(V_x), EQ, NUM(6), SEMI>>), (<<ID(V_x), PLUSEQ, NUM(1), SEMI>>),
      (<<ID(V_x), PLUSPLUS, SEMI>>), (<<PLUSPLUS, ID(V_x), SEMI>>)>>

\* const int x = 5; followed by one write to x
ConstProg(k) == <<RW(W_const), T_int, ID(V_x), EQ, NUM(5), SEMI>> \o Writes[k]

\* let i = 0; while (i < N) { let j = 0; while (j < M) { j = j + 1; } i = i + 1; }
NestedWhileProg(N, M) ==
    Let(V_i, 0) \o
    While(V_i, N, Braces(Let(V_j, 0) \o While(V_j, M, Braces(Increment(V_j))) \o Increment(V_i)))

\* for (int j = 0; j < N; j++) { let i = 0; do { i = i + 1; } while (i < M); }
NestedForProg(N, M) ==
    For(V_j, N, Braces(Let(V_i, 0) \o DoWhile(V_i, M, Increment(V_i))))

\* struct S { 5 }   and the same body in a record, a class and an enum
MalformedProg(kind) == <<kind, ID(<<"S">>), LB, NUM(5), RB>>

\* class C { int f = 1; int m(int a, b) { print(1); } int p { get; set { print(2); } } }
ClassProg ==
    <<T_class, ID(<<"C">>), LB,
      T_int, ID(<<"f">>), EQ, NUM(1), SEMI,
      T_int, ID(<<"m">>), LP, T_int, ID(<<"a">>), Tok("COMMA", <<",">>), ID(<<"b">>), RP, LB>>
    \o PrintNum(1) \o
    <<RB, T_int, ID(<<"p">>), LB, T_get, SEMI, T_set, LB>> \o PrintNum(2) \o <<RB, RB, RB>>

\* struct S { int a; }  record R { int a = 1; }  enum E { A = 1, B }
DeclarationsProg ==
    <<T_struct, ID(<<"S">>), LB, T_int, ID(<<"a">>), SEMI, RB,
      T_record, ID(<<"R">>), LB, T_int, ID(<<"a">>), EQ, NUM(1), SEMI, RB,
      T_enum, ID(<<"E">>), LB, ID(<<"A">>), EQ, NUM(1), Tok("COMMA", <<",">>),
      ID(<<"B">>), RB>>

\* foreach (var x in r) print(1);
ForeachProg ==
    <<RW(W_foreach), LP, KW(W_var), ID(V_x), RW(W_in), ID(V_r), RP>> \o PrintNum(1)

\* if (x >    and there the input ends
TruncatedIfProg == <<RW(W_if), LP, ID(V_x), GREATER>>

\* a as the scanner reads it: a NUMBER, after a MINUS when a is negative
Literal(a) == IF a < 0 THEN <<MINUS, NUM(-a)>> ELSE <<NUM(a)>>

\* let r = a / 0; print(r);
DivProg(a) == <<KW(W_let), ID(V_r), EQ>> \o Literal(a) \o <<SLASH, NUM(0), SEMI>> \o PrintVar(V_r)

\* the streams of 1 .. MaxJunk tokens over a few tokens that open, fill and
\* close a declaration: what a damaged source file can leave
JunkTokens == {T_struct, T_class, T_record, T_enum, LB, RB, NUM(5), ID(V_x), SEMI, T_int}

JunkProgs == UNION {[1..n -> JunkTokens] : n \in 1..MaxJunk}

LoopKinds == {"while", "for", "do"}

STAR == Tok("STAR", <<"*">>)

T_next == Tok("NEXT", <<"n", "e", "x", "t">>)

\* print(a + b * c);
SumProductProg(a, b, c) == <<KW(W_print), LP, NUM(a), PLUS, NUM(b), STAR, NUM(c), RP, SEMI>>

\* thirty letters a
A30 == [i \in 1..IDENTIFIER_MAX_LENGTH - 1 |-> "a"]

\* names of 31 and 32 characters that share their first 30
LongNames ==
    {A30 \o <<"b">>, A30 \o <<"b", "c">>, A30 \o <<"B", "d">>,
     A30 \o <<"c">>, A30 \o <<"c", "b">>}

\* the token the scanner makes of each of these names
NameToken == [raw \in LongNames |-> identifier(lexer_create(raw)).token]

\* the token the list holds for the word the source spells raw
Word(raw) == Tok(NameToken[raw].type, NameToken[raw].lexeme)

\* let r1 = 5; print(r2);
AliasProg(r1, r2) ==
    <<KW(W_let), Word(r1), EQ, NUM(5), SEMI, KW(W_print), LP, Word(r2), RP, SEMI>>

\* a * b + c    a - b - c    a + b < c
ChainOps == <<(<<STAR, PLUS>>), (<<MINUS, MINUS>>), (<<PLUS, LESS>>)>>

\* print(a op1 b op2 c);
ChainProg(k, a, b, c) ==
    <<KW(W_print), LP, NUM(a), ChainOps[k][1], NUM(b), ChainOps[k][2], NUM(c), RP, SEMI>>

\* let x = 0; enum E { A = x++, B } record R { int a = x++; } print(x);
InitializersProg ==
    Let(V_x, 0) \o
    <<T_enum, ID(<<"E">>), LB, ID(<<"A">>), EQ, ID(V_x), PLUSPLUS, Tok("COMMA", <<",">>),
      ID(<<"B">>), RB,
      T_record, ID(<<"R">>), LB, T_int, ID(<<"a">>), EQ, ID(V_x), PLUSPLUS, SEMI, RB>>
    \o PrintVar(V_x)

\* break;  or  next;
Jump(word) == <<IF word = "break" THEN T_break ELSE T_next, SEMI>>

JumpWords == {"break", "next"}

\* the loops of WhileProg, ForProg and DoWhileProg with a break; or next; after the print
JumpLoopProg(kind, word, N) ==
    IF kind = "while"
    THEN Let(V_i, 0) \o While(V_i, N, Braces(PrintVar(V_i) \o Jump(word) \o Increment(V_i)))
    ELSE IF kind = "for" THEN For(V_j, N, Braces(PrintVar(V_j) \o Jump(word)))
    ELSE Let(V_i, 0) \o DoWhile(V_i, N, PrintVar(V_i) \o Jump(word) \o Increment(V_i))

\* for (int j = 0; j < N; j++) BODY   print(9); print(j);
\* where BODY is { print(j); } or print(j);
ForThenProg(N, braces) ==
    For(V_j, N, IF braces THEN Braces(PrintVar(V_j)) ELSE PrintVar(V_j))
    \o PrintNum(9) \o PrintVar(V_j)

\* let i = 0; if (c) do { print(i); } while (i++ < N); print(9);
DoCountProg(c, N) ==
    Let(V_i, 0) \o <<RW(W_if), LP, NUM(c), RP, T_do, LB>> \o PrintVar(V_i)
    \o <<RB, RW(W_while), LP, ID(V_i), PLUSPLUS, LESS, NUM(N), RP, SEMI>> \o PrintNum(9)

\* if (0) do { print(1); } while (c); print(9);
DoSkipProg(c) ==
    <<RW(W_if), LP, NUM(0), RP, T_do, LB>> \o PrintNum(1)
    \o <<RB, RW(W_while), LP, NUM(c), RP, SEMI>> \o PrintNum(9)

ScopeKinds == {"block", "if", "while"}

\* { let x = 1; }  or  if (1) { let x = 1; }  or
\* let i = 0; while (i < 1) { let x = 1; i = i + 1; }   and then   x = x + 1; print(x);
ScopeProg(kind) ==
    (IF kind = "block" THEN Braces(Let(V_x, 1))
     ELSE IF kind = "if" THEN <<RW(W_if), LP, NUM(1), RP>> \o Braces(Let(V_x, 1))
     ELSE Let(V_i, 0) \o While(V_i, 1, Braces(Let(V_x, 1) \o Increment(V_i))))
    \o Increment(V_x) \o PrintVar(V_x)

T_true == Tok("BOOLEAN_LITERAL", W_true)

T_false == Tok("BOOLEAN_LITERAL", <<"f", "a", "l", "s", "e">>)

\* the conditions of IfCondProg:  0  1  2  true  false  x++  ++x  x < 1
Conds ==
    <<(<<NUM(0)>>), (<<NUM(1)>>), (<<NUM(2)>>), (<<T_true>>), (<<T_false>>),
      (<<ID(V_x), PLUSPLUS>>), (<<PLUSPLUS, ID(V_x)>>), (<<ID(V_x), LESS, NUM(1)>>)>>

\* let x = 0; if (cond) print(1); else print(2); print(9);   with or without the else
IfCondProg(k, with_else) ==
    Let(V_x, 0) \o <<RW(W_if), LP>> \o Conds[k] \o <<RP>> \o PrintNum(1)
    \o (IF with_else THEN <<RW(W_else)>> \o PrintNum(2) ELSE << >>) \o PrintNum(9)

LogicOps == <<Tok("AND_AND", <<"&", "&">>), Tok("OR_OR", <<"|", "|">>)>>

\* 0  1  2  true  false
Lefts == <<(<<NUM(0)>>), (<<NUM(1)>>), (<<NUM(2)>>), (<<T_true>>), (<<T_false>>)>>

\* x++  ++x
Rights == <<(<<ID(V_x), PLUSPLUS>>), (<<PLUSPLUS, ID(V_x)>>)>>

\* let x = 0; print(<left> && <right>); print(x);     and the same with ||
LogicProg(op, l, r) ==
    Let(V_x, 0) \o <<KW(W_print), LP>> \o Lefts[l] \o <<LogicOps[op]>> \o Rights[r]
    \o <<RP, SEMI>> \o PrintVar(V_x)

\* 0  5  true  false
NotOperands == <<NUM(0), NUM(5), T_true, T_false>>

\* print(!e); if (!e) print(1); else print(2);
NotProg(k) ==
    <<KW(W_print), LP, Tok("NOT", <<"!">>), NotOperands[k], RP, SEMI,
      RW(W_if), LP, Tok("NOT", <<"!">>), NotOperands[k], RP>>
    \o PrintNum(1) \o <<RW(W_else)>> \o PrintNum(2)

\* let x = 0; for (x = 0; x++ < 2; )     the source ends where the body would begin
EndForProg ==
    Let(V_x, 0) \o <<RW(W_for), LP, ID(V_x), EQ, NUM(0), SEMI, ID(V_x), PLUSPLUS, LESS, NUM(2),
                     SEMI, RP>>

\* sources that end in or right after the word that opens a loop:  while   do   while (
EndLoopProgs == {<<RW(W_while)>>, <<T_do>>, <<RW(W_while), LP>>}

PERCENT == Tok("PERCENT", <<"%">>)

\* the compound assignment operators  +=  -=  *=  /=  %=
CompoundOps ==
    <<PLUSEQ, Tok("MINUS_EQUAL", <<"-", "=">>), Tok("STAR_EQUAL", <<"*", "=">>),
      Tok("SLASH_EQUAL", <<"/", "=">>), Tok("PERCENT_EQUAL", <<"%", "=">>)>>

\* the operators  +  -  *  /  %
BinaryOps == <<PLUS, MINUS, STAR, SLASH, PERCENT>>

\* let x = a; x op= e; print(x);
CompoundProg(k, a, e) ==
    <<KW(W_let), ID(V_x), EQ>> \o Literal(a) \o <<SEMI, ID(V_x), CompoundOps[k]>>
    \o Literal(e) \o <<SEMI>> \o PrintVar(V_x)

\* let x = a; x = x op e; print(x);
BinaryProg(k, a, e) ==
    <<KW(W_let), ID(V_x), EQ>> \o Literal(a) \o <<SEMI, ID(V_x), EQ, ID(V_x), BinaryOps[k]>>
    \o Literal(e) \o <<SEMI>> \o PrintVar(V_x)

MINUSMINUS == Tok("MINUS_MINUS", <<"-", "-">>)

\* ++x  --x  x++  x--
IncExprs ==
    <<(<<PLUSPLUS, ID(V_x)>>), (<<MINUSMINUS, ID(V_x)>>),
      (<<ID(V_x), PLUSPLUS>>), (<<ID(V_x), MINUSMINUS>>)>>

\* let x = v; let i = 7; print(i); print(<++x, --x, x++ or x-->); print(x);
IncProg(k, v) ==
    <<KW(W_let), ID(V_x), EQ>> \o Literal(v) \o <<SEMI>> \o Let(V_i, 7) \o PrintVar(V_i)
    \o <<KW(W_print), LP>> \o IncExprs[k] \o <<RP, SEMI>> \o PrintVar(V_x)

\* 5++  ++5  5--  (5)++  (i + 1)++  ++(i)
NonNameExprs ==
    <<(<<NUM(5), PLUSPLUS>>), (<<PLUSPLUS, NUM(5)>>), (<<NUM(5), MINUSMINUS>>),
      (<<LP, NUM(5), RP, PLUSPLUS>>), (<<LP, ID(V_i), PLUS, NUM(1), RP, PLUSPLUS>>),
      (<<PLUSPLUS, LP, ID(V_i), RP>>)>>

\* let i = 7; let x = 1; print(x); print(<an increment of no name>); print(x);
NonNameIncProg(k) ==
    Let(V_i, 7) \o Let(V_x, 1) \o PrintVar(V_x)
    \o <<KW(W_print), LP>> \o NonNameExprs[k] \o <<RP, SEMI>> \o PrintVar(V_x)

\* programs that read x, which nothing declares:
\*   print(x); print(9);     let i = x + 1; print(i);     if (x) print(1); else print(2);
UndefinedReads ==
    <<PrintVar(V_x) \o PrintNum(9),
      <<KW(W_let), ID(V_i), EQ, ID(V_x), PLUS, NUM(1), SEMI>> \o PrintVar(V_i),
      IfElse(<<ID(V_x)>>, PrintNum(1), PrintNum(2))>>

\* statements with a syntax error:
\*   print ( ;     let = 5 ;     x 5 ;     print ( 1 ;     if ( ) print(1);
Bad ==
    <<(<<KW(W_print), LP, SEMI>>), (<<KW(W_let), EQ, NUM(5), SEMI>>),
      (<<ID(V_x), NUM(5), SEMI>>), (<<KW(W_print), LP, NUM(1), SEMI>>),
      <<RW(W_if), LP, RP>> \o PrintNum(1)>>

\* two of them and then print(9);
ErrorProg(a, b) == Bad[a] \o Bad[b] \o PrintNum(9)

\* the loops of WhileProg, ForProg and DoWhileProg with the bad statement  x 5 ;
\* at the end of the body, and print(9); after the loop
ErrorLoopProg(kind, N) ==
    (IF kind = "while"
     THEN Let(V_i, 0) \o While(V_i, N, Braces(PrintVar(V_i) \o Increment(V_i) \o Bad[3]))
     ELSE IF kind = "for" THEN For(V_j, N, Braces(PrintVar(V_j) \o Bad[3]))
     ELSE Let(V_i, 0) \o DoWhile(V_i, N, PrintVar(V_i) \o Increment(V_i) \o Bad[3]))
    \o PrintNum(9)

\* tokens that begin no statement: a number, a ')', the INVALID token of a '@'
Unstartable == <<NUM(5), RP, Tok("INVALID", <<"@">>)>>

\* one of them and then print(9);
SkipProg(k) == <<Unstartable[k]>> \o PrintNum(9)

Programs ==
    {WhileProg(N) : N \in 0..MaxN}
    \cup {ForProg(N) : N \in 0..MaxN}
    \cup {DoWhileProg(N) : N \in 0..MaxN}
    \cup {NestedIfProg(c1, c2) : c1 \in 0..1, c2 \in 0..1}
    \cup {GuardedLoopProg(kind, c, N) : kind \in LoopKinds, c \in 0..1, N \in 0..MaxM}
    \cup {LoopedIfProg(N) : N \in 0..MaxN}
    \cup {SwitchProg(s) : s \in 0..MaxN}
    \cup {ConstProg(k) : k \in 1..Len(Writes)}
    \cup {NestedWhileProg(N, M) : N \in 0..MaxN, M \in 0..(MaxM + 1)}
    \cup {NestedForProg(N, M) : N \in 0..MaxN, M \in 0..MaxM}
    \cup {MalformedProg(kind) : kind \in {T_struct, T_class, T_record, T_enum}}
    \cup {ClassProg, DeclarationsProg, ForeachProg, TruncatedIfProg}
    \cup {DivProg(a) : a \in (-MaxA)..MaxA}
    \cup JunkProgs
    \cup {SumProductProg(a, b, c) : a \in 1..MaxN, b \in 1..MaxN, c \in 1..MaxN}
    \cup {ChainProg(k, a, b, c) : k \in 1..Len(ChainOps), a \in 0..MaxN, b \in 0..MaxN,
                                  c \in 0..MaxN}
    \cup {AliasProg(r1, r2) : r1 \in LongNames, r2 \in LongNames}
    \cup {LogicProg(op, l, r) : op \in 1..Len(LogicOps), l \in 1..Len(Lefts),
                                 r \in 1..Len(Rights)}
    \cup {NotProg(k) : k \in 1..Len(NotOperands)}
    \cup {EndForProg} \cup EndLoopProgs
    \cup {JumpLoopProg(kind, word, N) : kind \in LoopKinds, word \in JumpWords, N \in 0..MaxN}
    \cup {ScopeProg(kind) : kind \in ScopeKinds}
    \cup {InitializersProg}
    \cup {ForThenProg(N, braces) : N \in 0..MaxN, braces \in BOOLEAN}
    \cup {DoCountProg(c, N) : c \in 0..1, N \in 0..MaxN}
    \cup {DoSkipProg(c) : c \in 0..MaxN}
    \cup {IfCondProg(k, with_else) : k \in 1..Len(Conds), with_else \in BOOLEAN}
    \cup {CompoundProg(k, a, e) : k \in 1..Len(CompoundOps), a \in (-MaxN)..MaxN,
                                  e \in (-MaxN)..MaxN}
    \cup {IncProg(k, v) : k \in 1..Len(IncExprs), v \in (-MaxN)..MaxN}
    \cup {NonNameIncProg(k) : k \in 1..Len(NonNameExprs)}
    \cup {UndefinedReads[k] : k \in 1..Len(UndefinedReads)}
    \cup {ErrorProg(a, b) : a \in 1..Len(Bad), b \in 1..Len(Bad)}
    \cup {ErrorLoopProg(kind, N) : kind \in LoopKinds, N \in 0..MaxN}
    \cup {SkipProg(k) : k \in 1..Len(Unstartable)}
    \cup {BinaryProg(k, a, e) : k \in 1..Len(BinaryOps), a \in (-MaxN)..MaxN,
                                e \in (-MaxN)..MaxN}

-----------------------------------------------------------------------------
(* parser_parse over one token stream. *)

UndefValues == {0, 1}

\* jumped: jump_to has been called, and only advance has moved the cursor since;
\* rewound: it had been before the last call; redefined: env_define of a bound name
\* phase: "run" for a run of the program; "dry" and "exec" for the two parses of the
\* comparison below, where starts holds the cursor at the call of every statement()
\* that has not returned, ends the pairs <<cursor at call, cursor at return>> of the
\* dry parse, and differs says that a statement() of the executing parse returned
\* at a cursor that is not the one the dry parse paired with its call
NoHist ==
    [jumped |-> FALSE, i |-> 0, k |-> 0, rewound |-> FALSE, redefined |-> FALSE,
     phase |-> "run", starts |-> << >>, ends |-> {}, differs |-> FALSE]

\* main has freed the lexer, and read the symbol table, before it makes the parser
NoLexer == [source |-> << >>, length |-> 0, index |-> 0, line |-> 1, column |-> 1, ub |-> FALSE]

Init ==
    /\ token_list \in Programs
    /\ undef \in UndefValues
    /\ \E traps \in BOOLEAN :
          parser = [parser_create EXCEPT !.output_file = TRUE, !.traps = traps]
    /\ stack = << >>
    /\ pc = "start"
    /\ hist = NoHist
    /\ lexer = NoLexer
    /\ symbol_table = << >>

Top == stack[Len(stack)]

\* hist after a step of activation f that left r: a call of statement() opens a
\* measurement, its return closes one
measured(h, f, r) ==
    IF h.phase = "run" THEN h
    ELSE IF Len(r.fs) = 2 /\ r.fs[2].fn = "statement"
    THEN [h EXCEPT !.starts = Append(@, r.p.current_index)]
    ELSE IF r.fs = << >> /\ f.fn = "statement" /\ ~Stopped(r.p)
    THEN LET start == h.starts[Len(h.starts)]
             pair == <<start, r.p.current_index>>
         IN  [h EXCEPT !.starts = SubSeq(@, 1, Len(@) - 1),
                       !.ends = IF h.phase = "dry" THEN @ \cup {pair} ELSE @,
                       !.differs = @ \/ (h.phase = "exec" /\ pair \notin h.ends)]
    ELSE h

\* how the run stands after a step that left parser p and stack s
status(p, s) ==
    IF p.ub THEN "crashed"
    ELSE IF p.hung THEN "hung"
    ELSE IF p.cut THEN "cut"
    ELSE IF s = << >> THEN "done"
    ELSE "running"

\* the activation on top of the stack is one of function fn: it takes its next step
\* r is what the step of the top activation left
StepTo(r) ==
    /\ parser' = r.p
    /\ stack' = SubSeq(stack, 1, Len(stack) - 1) \o r.fs
    /\ pc' = status(r.p, stack')
    /\ hist' = measured(hist, Top, r)
    /\ UNCHANGED <<token_list, undef, lexer, symbol_table>>

Step(fn, step(_, _)) ==
    /\ pc = "running"
    /\ Top.fn = fn
    /\ StepTo(step(parser, Top))

ParseStart ==
    /\ pc = "start"
    /\ parser' = enter_node(parser, "Program")
    /\ stack' = <<Frame("parser_parse")>>
    /\ pc' = "running"
    /\ UNCHANGED <<token_list, undef, hist, lexer, symbol_table>>

ParserParse == Step("parser_parse", parser_parse)

Statement == Step("statement", statement)

Block == Step("block", block)

IfStatement == Step("if_statement", if_statement)

WhileStatement == Step("while_statement", while_statement)

ForStatement == Step("for_statement", for_statement)

ForeachStatement == Step("foreach_statement", foreach_statement)

SwitchStatement == Step("switch_statement", switch_statement)

DoWhileStatement == Step("do_while_statement", do_while_statement)

ClassDeclaration == Step("class_declaration", class_declaration)

Next ==
    \/ ParseStart
    \/ ParserParse
    \/ Statement
    \/ Block
    \/ IfStatement
    \/ WhileStatement
    \/ ForStatement
    \/ ForeachStatement
    \/ SwitchStatement
    \/ DoWhileStatement
    \/ ClassDeclaration

Spec == Init /\ [][Next]_vars

-----------------------------------------------------------------------------
(* The same token stream parsed twice: first with executing false from the *)
(* start (what statement() does inside a branch or a loop that is not      *)
(* taken), then, by a new parser, as main runs it.  hist keeps where every *)
(* statement() of the first parse began and ended.                         *)

InitDry ==
    /\ token_list \in Programs
    /\ undef \in UndefValues
    /\ \E traps \in BOOLEAN :
          parser = [parser_create EXCEPT !.output_file = TRUE, !.traps = traps,
                                         !.executing = FALSE]
    /\ stack = << >>
    /\ pc = "start"
    /\ hist = [NoHist EXCEPT !.phase = "dry"]
    /\ lexer = NoLexer
    /\ symbol_table = << >>

\* the dry parse is over: parser_create again, and the run of main
Restart ==
    /\ pc = "done"
    /\ hist.phase = "dry"
    /\ parser' = [parser_create EXCEPT !.output_file = TRUE, !.traps = parser.traps]
    /\ stack' = << >>
    /\ pc' = "start"
    /\ hist' = [hist EXCEPT !.phase = "exec", !.starts = << >>]
    /\ UNCHANGED <<token_list, undef, lexer, symbol_table>>

NextDry ==
    \/ Next
    \/ Restart

SpecDry == InitDry /\ [][NextDry]_vars

-----------------------------------------------------------------------------
(* Any sequence of calls of jump_to, advance, env_define and env_assign on *)
(* one parser, as parser_create leaves it (no output file yet).  hist      *)
(* keeps the index i of the last jump_to and the number k of calls of      *)
(* advance since.  When the cursor is behind a name and on an assignment    *)
(* operator, as statement() finds it, assignment_statement may be called.  *)

Streams == {<<ID(V_x), EQ, NUM(1), SEMI>>, <<NUM(1), NUM(2)>>, <<SEMI>>}

Names == {V_x, V_i}

Values == {make_int(0), make_int(1)}

InitCalls ==
    /\ token_list \in Streams
    /\ undef \in UndefValues
    /\ parser = parser_create
    /\ stack = << >>
    /\ pc = "start"
    /\ hist = NoHist
    /\ lexer = NoLexer
    /\ symbol_table = << >>

JumpTo(i) ==
    /\ parser' = jump_to(parser, i)
    /\ hist' = [hist EXCEPT !.jumped = TRUE, !.i = i, !.k = 0, !.rewound = hist.jumped]
    /\ UNCHANGED <<token_list, undef, stack, pc, lexer, symbol_table>>

Advance ==
    /\ hist.k < MaxK
    /\ parser' = advance(parser)
    /\ hist' = [hist EXCEPT !.k = @ + 1]
    /\ UNCHANGED <<token_list, undef, stack, pc, lexer, symbol_table>>

EnvDefine(name, value, is_const) ==
    /\ parser' = [parser EXCEPT !.env = env_define(@, name, value, is_const)]
    /\ hist' = [hist EXCEPT !.redefined = @ \/ env_find(parser.env, name) # 0]
    /\ UNCHANGED <<token_list, undef, stack, pc, lexer, symbol_table>>

EnvAssign(name, value) ==
    /\ parser' = [parser EXCEPT !.env = env_assign(@, name, value).env]
    /\ UNCHANGED <<token_list, undef, stack, pc, hist, lexer, symbol_table>>

\* statement(), lines 1887-1893: after match(IDENTIFIER), on an assignment operator
AssignmentStatement ==
    /\ parser.previous_token.type = "IDENTIFIER"
    /\ parser.current_token.type \in {"EQUAL", "PLUS_EQUAL", "MINUS_EQUAL", "STAR_EQUAL",
                                      "SLASH_EQUAL", "PERCENT_EQUAL"}
    /\ Len(parser.effects) < MaxK
    /\ parser' = assignment_statement(parser)
    /\ hist' = [hist EXCEPT !.jumped = FALSE]
    /\ UNCHANGED <<token_list, undef, stack, pc, lexer, symbol_table>>

NextCalls ==
    \/ \E i \in 0..(count - 1) : JumpTo(i)
    \/ Advance
    \/ \E name \in Names, value \in Values, is_const \in BOOLEAN :
          EnvDefine(name, value, is_const)
    \/ \E name \in Names, value \in Values : EnvAssign(name, value)
    \/ AssignmentStatement

SpecCalls == InitCalls /\ [][NextCalls]_vars


-----------------------------------------------------------------------------
(* Lexical analysis as main runs it: write_symbol_table scans a source and *)
(* prints a row for each token, then read_tokens_from_symbol_table reads   *)
(* the file back.  hist keeps the tokens lexer_next_token returned.        *)

\* the characters the scanned texts are made of
Alphabet == {DQ, "a", SP, BAR, BS, "n"}

Texts == UNION {[1..n -> Alphabet] : n \in 0..MaxSrc}

upper_case(str) == [i \in 1..Len(str) |-> Upper[position(str[i], Lower)]]

\* a word of the keyword table, spelled in other cases, cut short and extended
Spellings(w) ==
    {w, upper_case(w), <<Upper[position(w[1], Lower)]>> \o Tail(w),
     SubSeq(w, 1, Len(w) - 1), w \o <<"x">>, w \o <<"1">>, <<"_">> \o w}

Words == UNION {Spellings(KeywordTable[k][1]) : k \in 1..Len(KeywordTable)}

\* the letters that follow a backslash in the sampled string literals
EscapeLetters == {"n", "t", "r", "q"}

\* "\c" for each of these letters
EscapeSources == {<<DQ, BS, c, DQ>> : c \in EscapeLetters}

\* block comments that the source does not close:  /*   /*a   /*aa   /*a*
Unterminated ==
    {<<"/", "*">>, <<"/", "*", "a">>, <<"/", "*", "a", "a">>, <<"/", "*", "a", "*">>}

\* ... and one that it does:  /*a*/
CommentSources == Unterminated \cup {<<"/", "*", "a", "*", "/">>}

Sources == Texts \cup Words \cup EscapeSources \cup CommentSources

InitScan ==
    /\ lexer \in {lexer_create(source) : source \in Sources}
    /\ symbol_table = Header
    /\ token_list = << >>
    /\ hist = << >>
    /\ pc = "scanning"
    /\ parser = parser_create
    /\ stack = << >>
    /\ undef = 0

\* one turn of the loop of write_symbol_table, or what it does after the loop
WriteRow(s) ==
    /\ lexer' = s.lexer
    /\ hist' = IF s.token.type = "TOKEN_EOF" THEN hist ELSE Append(hist, s.token)
    /\ symbol_table' = IF s.token.type = "TOKEN_EOF"
                       THEN symbol_table \o table_footer(Len(hist))
                       ELSE Append(symbol_table, table_row(s.token))
    /\ pc' = IF s.lexer.ub THEN "crashed"
             ELSE IF s.token.type = "TOKEN_EOF" THEN "written"
             ELSE "scanning"
    /\ UNCHANGED <<token_list, parser, stack, undef>>

WriteSymbolTable ==
    /\ pc = "scanning"
    /\ WriteRow(lexer_next_token(lexer))

ReadTokensFromSymbolTable ==
    /\ pc = "written"
    /\ token_list' = read_tokens_from_symbol_table(symbol_table)
    /\ pc' = "read"
    /\ UNCHANGED <<parser, stack, undef, hist, lexer, symbol_table>>

NextScan ==
    \/ WriteSymbolTable
    \/ ReadTokensFromSymbolTable

SpecScan == InitScan /\ [][NextScan]_vars

-----------------------------------------------------------------------------
(* Properties. *)

IsPrefix(s, t) == Len(s) <= Len(t) /\ SubSeq(t, 1, Len(s)) = s

\* an effect made while executing was true
Eff(kind, name, v) ==
    [kind |-> kind, name |-> name, value |-> make_int(v), executing |-> TRUE]

\* what WhileProg does up to the end of its n-th iteration
RECURSIVE WhileEffects(_)
WhileEffects(n) ==
    IF n = 0 THEN <<Eff("define", V_i, 0)>>
    ELSE WhileEffects(n - 1) \o <<Eff("print", << >>, n - 1), Eff("assign", V_i, n)>>

Aborted == pc \in {"hung", "crashed", "cut"}

\* C1: let i = 0; while (i < N) { print(i); i = i + 1; } runs its body exactly N
\* times: it prints 0 .. N-1 in order, each iteration prints once and assigns once
\* whatever is re-scanned, and the run ends with i bound to Int N.
C1_WhileRunsBodyNTimes ==
    \A N \in 0..MaxN :
        token_list = WhileProg(N) =>
            /\ ~Aborted
            /\ IsPrefix(parser.effects, WhileEffects(N))
            /\ pc = "done" =>
                  /\ parser.effects = WhileEffects(N)
                  /\ parser.iterations = N
                  /\ parser.env = <<[name |-> V_i, value |-> make_int(N),
                                     is_const |-> FALSE]>>

C1_Witness ==
    /\ token_list = WhileProg(3)
    /\ pc = "done"
    /\ parser.iterations = 3
    /\ Len(parser.effects) = 7

\* the guard an activation on the stack is inside of evaluated true, and the
\* executing flag around it was true
GuardHolds(f) ==
    IF f.fn = "if_statement"
    THEN /\ f.at = "after_then" => f.parent_exec /\ f.b
         /\ f.at = "after_else" => f.parent_exec /\ ~f.b
    ELSE IF f.fn \in {"while_statement", "for_statement"}
    THEN /\ f.at = "after_body" => f.b
         /\ f.at # "after_skip"
    ELSE TRUE

\* the branch of the if activation stack[k] has just been called
BranchCalled(k) ==
    /\ k < Len(stack)
    /\ stack[k].fn = "if_statement"
    /\ stack[k].at \in {"after_then", "after_else"}
    /\ stack[k + 1].fn = "statement"
    /\ stack[k + 1].at = "begin"

\* C2: every env_define, env_assign (++/-- included), print and input prompt is made
\* while executing is true; executing is true only inside branches and loop bodies
\* whose guards all evaluated true under a true enclosing flag; and the flag a branch
\* of an if starts with is the enclosing flag AND its own condition (negated for else).
C2_ExecutingGate ==
    /\ \A e \in 1..Len(parser.effects) : parser.effects[e].executing
    /\ parser.executing => \A k \in 1..Len(stack) : GuardHolds(stack[k])
    /\ \A k \in 1..Len(stack) :
          BranchCalled(k) =>
              parser.executing = (IF stack[k].at = "after_then"
                                  THEN stack[k].parent_exec /\ stack[k].b
                                  ELSE stack[k].parent_exec /\ ~stack[k].b)

\* inside the else branch of an if nested in the then branch of another, just after
\* a print there
C2_Witness ==
    /\ parser.executing
    /\ Len(parser.effects) > 0
    /\ \E k \in 1..Len(stack), m \in 1..Len(stack) :
          /\ k < m
          /\ stack[k].fn = "if_statement" /\ stack[k].at = "after_then"
          /\ stack[m].fn = "if_statement" /\ stack[m].at = "after_else"

\* C3: in a switch only the statements of the case whose value matches the
\* scrutinee run: case 1 prints 1 and case 2 prints 2 only when x is that value.
C3_OnlyMatchingCaseRuns ==
    \A s \in 0..MaxN :
        token_list = SwitchProg(s) =>
            \A e \in 1..Len(parser.effects) :
                (parser.effects[e].kind = "print" /\ parser.effects[e].value.v \in {1, 2})
                    => parser.effects[e].value.v = s

\* C4: after const int x = 5; a later write to x (x = 6; x += 1; x++; ++x;) leaves
\* x bound to Int 5 when the run completes.
C4_ConstKeepsValue ==
    \A k \in 1..Len(Writes) :
        (token_list = ConstProg(k) /\ pc = "done")
            => env_get(parser.env, V_x, make_null).out = make_int(5)

\* C5: after jump_to(i) and k calls of advance the current token is tokens[i+k] when
\* i+k is inside the list and EOF otherwise, whatever was called before.
C5_StablePositions ==
    hist.jumped =>
        parser.current_token = (IF hist.i + hist.k < count
                                THEN token_at(hist.i + hist.k)
                                ELSE EOFToken)

\* a second rewind, then advances past the end of the list, with bindings made
C5_Witness ==
    /\ hist.jumped
    /\ hist.rewound
    /\ hist.k >= 2
    /\ hist.i + hist.k >= count
    /\ parser.env # << >>

\* C6: no two bindings of the Environment list have the same name.
C6_NoDuplicateNames ==
    \A a \in 1..Len(parser.env), b \in 1..Len(parser.env) :
        a # b => parser.env[a].name # parser.env[b].name

\* a name that was already bound has been defined again, next to another binding
C6_Witness ==
    /\ hist.redefined
    /\ Len(parser.env) = 2

\* some loop on the stack has jumped back over its own tokens
InReplay(s) ==
    \E k \in 1..Len(s) :
        /\ s[k].fn \in {"while_statement", "for_statement", "do_while_statement"}
        /\ s[k].replay

\* C7: no Enter/Exit line is written while a while, for or do-while loop is in its
\* second or a later pass over its condition or body, nested loops included.
C7_NoTraceInReplay ==
    [][(InReplay(stack) /\ InReplay(stack')) => parser'.trace_nodes = parser.trace_nodes]_vars

\* no while, for or do-while in the stream
LoopFree(s) ==
    \A k \in 1..Len(s) : s[k].lexeme \notin {W_while, W_for} /\ s[k].type # "DO"

\* C8: on a stream without while, for and do-while parser_parse never gets into a
\* loop that repeats its own state, whatever the syntax errors.
C8_LoopFreeTerminates == LoopFree(token_list) => pc # "hung"

\* parser_parse has called statement() and it has returned
StatementReturned == Len(stack) = 1 /\ stack[1].at = "loop"

\* C9: the stream if ( x > gets exactly one error report, panic_mode is clear when
\* the statement returns, and the run ends with the cursor at EOF.
C9_TruncatedIf ==
    token_list = TruncatedIfProg =>
        /\ ~Aborted
        /\ Len(parser.errors) <= 1
        /\ StatementReturned => ~parser.panic_mode
        /\ pc = "done" =>
              /\ Len(parser.errors) = 1
              /\ ~parser.panic_mode
              /\ parser.current_token = EOFToken

C9_Witness ==
    /\ token_list = TruncatedIfProg
    /\ pc = "done"
    /\ parser.errors = <<[message |-> "Expect expression.", at |-> "TOKEN_EOF"]>>

\* C10: let r = a / 0; print(r); for an Int a binds r to Int 0 and prints 0, sets no
\* error flag and runs to completion.
C10_DivisionByZero ==
    \A a \in (-MaxA)..MaxA :
        token_list = DivProg(a) =>
            /\ ~Aborted
            /\ ~parser.had_error
            /\ \A e \in 1..Len(parser.effects) : parser.effects[e].value = make_int(0)
            /\ pc = "done" =>
                  /\ parser.env = <<[name |-> V_r, value |-> make_int(0),
                                     is_const |-> FALSE]>>
                  /\ parser.effects = <<Eff("define", V_r, 0), Eff("print", << >>, 0)>>

C10_Witness ==
    /\ token_list = DivProg(5)
    /\ pc = "done"
    /\ Len(parser.effects) = 2

-----------------------------------------------------------------------------
(* The scanner and the symbol table file. *)

NonComment(tokens) == SelectSeq(tokens, LAMBDA t : t.type # "COMMENT")

\* C11: the tokens read_tokens_from_symbol_table returns from the file that
\* write_symbol_table wrote are, in the same order, the tokens the Scanner
\* produced less the comments, each with the same category, lexeme, raw text,
\* line and column.
C11_RoundTrip == pc = "read" => token_list = NonComment(hist)

\* a token the scanner made of a run of letters, digits and underscores
IsRun(t) == t.raw # << >> /\ is_identifier_start(t.raw[1])

\* a text that is one such run
IsWord(str) ==
    /\ str # << >>
    /\ is_identifier_start(str[1])
    /\ \A i \in 1..Len(str) : is_identifier_char(str[i])

\* the category of the entry of the keyword table that equals the whole run
\* without regard to case, IDENTIFIER when there is none
Category(raw) ==
    IF \E k \in 1..Len(KeywordTable) :
           /\ Len(KeywordTable[k][1]) = Len(raw)
           /\ \A i \in 1..Len(raw) :
                  raw[i] \in {KeywordTable[k][1][i], Upper[position(KeywordTable[k][1][i], Lower)]}
    THEN KeywordTable[CHOOSE k \in 1..Len(KeywordTable) :
                          /\ Len(KeywordTable[k][1]) = Len(raw)
                          /\ \A i \in 1..Len(raw) :
                                 raw[i] \in {KeywordTable[k][1][i],
                                             Upper[position(KeywordTable[k][1][i], Lower)]}][2]
    ELSE "IDENTIFIER"

\* C12: a run of letters scans to the category of the keyword-table entry that
\* equals the whole run case-insensitively and to IDENTIFIER when there is no
\* such entry; a run with a digit or an underscore scans to IDENTIFIER; the raw
\* text is the run as the source spells it, and a source that is one run scans
\* to one token.
C12_KeywordOrIdentifier ==
    /\ \A k \in 1..Len(hist) :
           IsRun(hist[k]) =>
               /\ hist[k].type = Category(hist[k].raw)
               /\ hist[k].raw = SubSeq(lexer.source, hist[k].column,
                                       hist[k].column + Len(hist[k].raw) - 1)
    /\ (pc = "written" /\ IsWord(lexer.source)) =>
           (Len(hist) = 1 /\ hist[1].raw = lexer.source)

\* "For" is scanned: a reserved word, its raw text as spelled
C12_Witness ==
    /\ pc = "written"
    /\ lexer.source = <<"F", "o", "r">>
    /\ hist = <<create_token("RESERVED_WORD", <<"f", "o", "r">>, <<"F", "o", "r">>, 1, 1)>>

\* C17: each word the header lists as a contextual keyword scans to KEYWORD
\* and each word it lists as a reserved word scans to RESERVED_WORD.
C17_HeaderCategories ==
    \A k \in 1..Len(hist) :
        IsRun(hist[k]) =>
            /\ hist[k].lexeme \in ContextualKeywords => hist[k].type = "KEYWORD"
            /\ hist[k].lexeme \in ReservedWords => hist[k].type = "RESERVED_WORD"


-----------------------------------------------------------------------------
(* Expressions, declarations, jumps and scopes. *)

\* C13 (amended): print(a + b * c) prints Int a + (b * c); the factor binds
\* tighter than the term, so 1 + 2 * 3 is Int 7.
C13_FactorBindsTighter ==
    \A a \in 1..MaxN, b \in 1..MaxN, c \in 1..MaxN :
        token_list = SumProductProg(a, b, c) =>
            /\ ~Aborted
            /\ pc = "done" => parser.effects = <<Eff("print", << >>, a + (b * c))>>

C13_Witness ==
    /\ token_list = SumProductProg(1, 2, 3)
    /\ pc = "done"
    /\ parser.effects = <<Eff("print", << >>, 7)>>

\* C13 as stated: the expression 1 + 2 * 3 evaluates to Int 6.
C13_SumProductIsSix ==
    (token_list = SumProductProg(1, 2, 3) /\ pc = "done") =>
        parser.effects = <<Eff("print", << >>, 6)>>

\* C14: a class, struct, enum or record declaration changes no binding of the
\* Environment and prints nothing, whatever its initializers and bodies hold:
\* the only effects of these programs are those of the statements around the
\* declarations.
C14_DeclarationsNotExecuted ==
    /\ token_list \in {ClassProg, DeclarationsProg} =>
           (parser.effects = << >> /\ parser.env = << >>)
    /\ token_list = InitializersProg =>
           IsPrefix(parser.effects, <<Eff("define", V_x, 0), Eff("print", << >>, 0)>>)

\* what ForProg does up to the end of its n-th iteration
RECURSIVE ForEffects(_)
ForEffects(n) ==
    IF n = 0 THEN <<Eff("define", V_j, 0)>>
    ELSE ForEffects(n - 1) \o <<Eff("print", << >>, n - 1), Eff("assign", V_j, n)>>

\* what the loops of WhileProg, ForProg and DoWhileProg of bound N do in all
LoopEffects(kind, N) ==
    IF kind = "while" THEN WhileEffects(N)
    ELSE IF kind = "for" THEN ForEffects(N)
    ELSE WhileEffects(IF N = 0 THEN 1 ELSE N)

\* statement() is entered at a break or a next
AtJump ==
    /\ pc = "running"
    /\ Top.fn = "statement"
    /\ Top.at = "begin"
    /\ parser.current_token.type \in {"BREAK", "NEXT"}

\* the step of statement() at a break; or next; : the two tokens are consumed
\* and the statement returns to an unchanged caller
JumpOnlyConsumes ==
    AtJump =>
        /\ parser'.env = parser.env
        /\ parser'.executing = parser.executing
        /\ parser'.effects = parser.effects
        /\ parser'.iterations = parser.iterations
        /\ parser'.errors = parser.errors
        /\ parser'.previous_token.type = "SEMICOLON"
        /\ stack' = SubSeq(stack, 1, Len(stack) - 1)

\* a loop with a break; or next; in its body does what the loop without it does
JumpLoopRunsAll ==
    \A kind \in LoopKinds, word \in JumpWords, N \in 0..MaxN :
        token_list = JumpLoopProg(kind, word, N) =>
            /\ ~Aborted
            /\ IsPrefix(parser.effects, LoopEffects(kind, N))
            /\ pc = "done" => parser.effects = LoopEffects(kind, N)

\* C15: a break; or next; statement only consumes its tokens: the step changes
\* neither the Environment, the executing flag, the effects, nor the iteration
\* of the enclosing loop, and a loop whose body holds one runs its whole body
\* on every iteration until its own condition is false.
C15_JumpOnlyConsumes == [][JumpOnlyConsumes /\ JumpLoopRunsAll']_vars

C15_Witness ==
    /\ token_list = JumpLoopProg("while", "break", 2)
    /\ pc = "done"
    /\ parser.iterations = 2
    /\ parser.effects = WhileEffects(2)

\* every name bound before the step is bound after it
BindingsKept ==
    \A k \in 1..Len(parser.env) : env_find(parser'.env, parser.env[k].name) # 0

\* what ScopeProg does
ScopeEffects(kind) ==
    (IF kind = "while"
     THEN <<Eff("define", V_i, 0), Eff("define", V_x, 1), Eff("assign", V_i, 1)>>
     ELSE <<Eff("define", V_x, 1)>>)
    \o <<Eff("assign", V_x, 2), Eff("print", << >>, 2)>>

\* x, declared inside the block, is read and assigned after it
ScopeVisibleAfter ==
    \A kind \in ScopeKinds :
        token_list = ScopeProg(kind) =>
            /\ ~Aborted
            /\ pc = "done" =>
                  /\ parser.effects = ScopeEffects(kind)
                  /\ env_get(parser.env, V_x, make_int(0)) = [ok |-> TRUE, out |-> make_int(2)]

\* C16: bindings are never removed: no step takes a name out of the
\* Environment, and a variable declared inside a block, an if body or a loop
\* body that executed is read and assigned after the block has been left.
C16_BindingsNeverRemoved == [][BindingsKept /\ ScopeVisibleAfter']_vars

C16_Witness ==
    /\ token_list = ScopeProg("block")
    /\ pc = "done"
    /\ parser.effects = ScopeEffects("block")


-----------------------------------------------------------------------------
(* Loops. *)

\* the run stopped in a loop that repeats its own state, or in undefined behaviour
Broken == pc \in {"hung", "crashed"}

\* the tokens of the for loop of ForThenProg
ForLoop(N, braces) == SubSeq(ForThenProg(N, braces), 1, Len(ForThenProg(N, braces)) - 10)

\* for_statement returns
ForReturns ==
    /\ pc = "running"
    /\ Top.fn = "for_statement"
    /\ Len(stack') < Len(stack)

\* the token that is current when the for loop of ForThenProg returns is the
\* first one after BODY
CursorPastBody ==
    \A N \in 0..MaxN, braces \in BOOLEAN :
        (ForReturns /\ token_list = ForThenProg(N, braces)) =>
            /\ parser'.current_index - 2 = Len(ForLoop(N, braces))
            /\ parser'.current_token = token_list[Len(ForLoop(N, braces)) + 1]
            /\ parser'.next_token = token_list[Len(ForLoop(N, braces)) + 2]
            /\ parser'.executing

\* the initializer once, then N times the body and after it the increment, then
\* the statements that follow the loop, with j bound to N
ForRunsBodyNTimes ==
    \A N \in 0..MaxN, braces \in BOOLEAN :
        token_list = ForThenProg(N, braces) =>
            /\ ~Aborted
            /\ IsPrefix(parser.effects,
                        ForEffects(N) \o <<Eff("print", << >>, 9), Eff("print", << >>, N)>>)
            /\ pc = "done" =>
                  /\ parser.effects =
                         ForEffects(N) \o <<Eff("print", << >>, 9), Eff("print", << >>, N)>>
                  /\ parser.iterations = N
                  /\ parser.env = <<[name |-> V_j, value |-> make_int(N), is_const |-> FALSE]>>

\* C18: for (int j = 0; j < N; j++) BODY, BODY not writing j: the initializer
\* runs once, BODY runs exactly N times, the increment takes effect once per
\* iteration and only after that iteration's body (the dry run over it changes
\* nothing), and the loop ends with j bound to Int N and the cursor just past BODY.
C18_ForRunsBodyNTimes == [][CursorPastBody /\ ForRunsBodyNTimes']_vars

C18_Witness ==
    /\ token_list = ForThenProg(3, TRUE)
    /\ pc = "done"
    /\ parser.iterations = 3
    /\ Len(parser.effects) = 9

\* what DoCountProg(1, N) does up to the n-th evaluation of its condition
RECURSIVE DoCountEffects(_)
DoCountEffects(n) ==
    IF n = 0 THEN <<Eff("define", V_i, 0)>>
    ELSE DoCountEffects(n - 1) \o <<Eff("print", << >>, n - 1), Eff("assign", V_i, n)>>

\* what DoCountProg(c, N) does in all: with c = 1 the condition is evaluated
\* N + 1 times, the first N of them truthy
DoCountAll(c, N) ==
    (IF c = 1 THEN DoCountEffects(N + 1) ELSE <<Eff("define", V_i, 0)>>)
    \o <<Eff("print", << >>, 9)>>

RECURSIVE InnerEffects(_)
InnerEffects(b) ==
    IF b = 0 THEN <<Eff("define", V_j, 0)>>
    ELSE InnerEffects(b - 1) \o <<Eff("assign", V_j, b)>>

\* what NestedWhileProg does in the first a iterations of its outer loop
RECURSIVE NestedEffects(_, _)
NestedEffects(a, B) ==
    IF a = 0 THEN <<Eff("define", V_i, 0)>>
    ELSE NestedEffects(a - 1, B) \o InnerEffects(B) \o <<Eff("assign", V_i, a)>>

\* the effects of a kind on a name
Count(kind, name) ==
    Cardinality({e \in 1..Len(parser.effects) :
                    parser.effects[e].kind = kind /\ parser.effects[e].name = name})

\* C20: a while loop of A iterations whose body holds a while loop of B
\* iterations, the inner counter set anew in the outer body: the inner body
\* takes effect exactly A * B times and the outer body exactly A times.
C20_NestedReplay ==
    \A A \in 0..MaxN, B \in 0..(MaxM + 1) :
        token_list = NestedWhileProg(A, B) =>
            /\ ~Broken
            /\ IsPrefix(parser.effects, NestedEffects(A, B))
            /\ pc = "done" =>
                  /\ parser.effects = NestedEffects(A, B)
                  /\ Count("assign", V_j) = A * B
                  /\ Count("assign", V_i) = A
                  /\ Count("define", V_j) = A
                  /\ parser.iterations = A + (A * B)

C20_Witness ==
    /\ token_list = NestedWhileProg(3, 2)
    /\ pc = "done"
    /\ Count("assign", V_j) = 6
    /\ Count("assign", V_i) = 3


-----------------------------------------------------------------------------
(* Branches, assignments and increments. *)

\* whether Conds[k] is truthy when x is 0
CondTruthy(k) == k \in {2, 3, 4, 7, 8}

\* what evaluating Conds[k] once does
CondEffects(k) == IF k \in {6, 7} THEN <<Eff("assign", V_x, 1)>> ELSE << >>

\* what IfCondProg(k, with_else) does
IfCondEffects(k, with_else) ==
    <<Eff("define", V_x, 0)>> \o CondEffects(k)
    \o (IF CondTruthy(k) THEN <<Eff("print", << >>, 1)>>
        ELSE IF with_else THEN <<Eff("print", << >>, 2)>> ELSE << >>)
    \o <<Eff("print", << >>, 9)>>

\* where the then branch of IfCondProg begins, and where its else branch does
ThenStart(k) == Len(Let(V_x, 0)) + 2 + Len(Conds[k]) + 1

ElseStart(k) == ThenStart(k) + Len(PrintNum(1)) + 1

\* the if statement of IfCondProg calls statement() for its then branch at the first
\* token of that branch and, with an else, once more at the first token after else
BranchesParsed ==
    \A k \in 1..Len(Conds), with_else \in BOOLEAN :
        (token_list = IfCondProg(k, with_else) /\ pc = "running"
            /\ Top.fn = "if_statement") =>
            /\ Top.at = "begin" =>
                  /\ Len(stack') = Len(stack) + 1
                  /\ stack'[Len(stack')].fn = "statement"
                  /\ parser'.current_index - 2 = ThenStart(k)
                  /\ parser'.executing = CondTruthy(k)
            /\ (Top.at = "after_then" /\ with_else) =>
                  /\ Len(stack') = Len(stack) + 1
                  /\ stack'[Len(stack')].fn = "statement"
                  /\ parser'.current_index - 2 = ElseStart(k)
                  /\ parser'.executing = ~CondTruthy(k)
            /\ (Top.at = "after_else" \/ (Top.at = "after_then" /\ ~with_else)) =>
                  /\ Len(stack') = Len(stack) - 1
                  /\ parser'.executing

\* the condition takes effect once, then exactly one branch does
OneBranchRuns ==
    \A k \in 1..Len(Conds), with_else \in BOOLEAN :
        token_list = IfCondProg(k, with_else) =>
            /\ ~Aborted
            /\ ~parser.had_error
            /\ IsPrefix(parser.effects, IfCondEffects(k, with_else))
            /\ pc = "done" => parser.effects = IfCondEffects(k, with_else)

\* C22: an if/else reached while executing, with a Bool or Int condition, evaluates
\* the condition exactly once, runs the then branch iff the condition is truthy and
\* the else branch iff it is falsy (never both, never neither when there is an else),
\* and parses both branches exactly once either way.
C22_IfElseOneBranch == [][BranchesParsed /\ OneBranchRuns']_vars

C22_Witness ==
    /\ token_list = IfCondProg(6, TRUE)
    /\ pc = "done"
    /\ parser.effects = IfCondEffects(6, TRUE)

\* the Int that a op e is in C, op the k-th of + - * / %, when it has one
IntOp(k, a, e) ==
    IF k = 1 THEN a + e
    ELSE IF k = 2 THEN a - e
    ELSE IF k = 3 THEN a * e
    ELSE IF k = 4 THEN c_div(a, e)
    ELSE c_rem(a, e)

\* C23: x op= e, op one of + - * / %, on a bound non-const Int x leaves x bound to
\* the value of x op e, for all Int x and e of a bounded range (e not 0 under / and
\* %, where the quotient is no Int).
C23_CompoundAssign ==
    \A k \in 1..Len(CompoundOps), a \in (-MaxN)..MaxN, e \in (-MaxN)..MaxN :
        (token_list = CompoundProg(k, a, e) /\ pc = "done" /\ (k \in {4, 5} => e # 0))
            => env_get(parser.env, V_x, make_null).out = make_int(IntOp(k, a, e))


\* what IncProg(k, v) does: x gets v + 1 or v - 1; the expression yields the new
\* value for ++x and --x, the old one for x++ and x--
IncEffects(k, v) ==
    LET new == IF k \in {1, 3} THEN v + 1 ELSE v - 1
    IN  <<Eff("define", V_x, v), Eff("define", V_i, 7), Eff("print", << >>, 7),
          Eff("assign", V_x, new),
          Eff("print", << >>, IF k \in {1, 2} THEN new ELSE v),
          Eff("print", << >>, new)>>

\* C24: for a bound non-const Int x of value v, ++x (--x) stores v+1 (v-1) into x
\* and yields v+1 (v-1); x++ (x--) stores v+1 (v-1) into x and yields v.
C24_PrefixPostfix ==
    \A k \in 1..Len(IncExprs), v \in (-MaxN)..MaxN :
        token_list = IncProg(k, v) =>
            /\ ~Aborted
            /\ IsPrefix(parser.effects, IncEffects(k, v))
            /\ pc = "done" =>
                  /\ parser.effects = IncEffects(k, v)
                  /\ env_get(parser.env, V_x, make_null) =
                         [ok |-> TRUE, out |-> make_int(IF k \in {1, 3} THEN v + 1 ELSE v - 1)]
                  /\ env_get(parser.env, V_i, make_null) = [ok |-> TRUE, out |-> make_int(7)]

C24_Witness ==
    /\ token_list = IncProg(4, -1)
    /\ pc = "done"
    /\ parser.effects[5] = Eff("print", << >>, -1)
    /\ parser.effects[6] = Eff("print", << >>, -2)

\* C25: a ++ or -- inside an expression stores only into the binding its own operand
\* names; when the operand is a literal or a parenthesized expression no binding
\* is changed.
C25_IncrementOwnOperand ==
    /\ \A k \in 1..Len(IncExprs), v \in (-MaxN)..MaxN :
           token_list = IncProg(k, v) =>
               \A e \in 1..Len(parser.effects) :
                   parser.effects[e].kind = "assign" => parser.effects[e].name = V_x
    /\ \A k \in 1..Len(NonNameExprs) :
           token_list = NonNameIncProg(k) =>
               \A e \in 1..Len(parser.effects) : parser.effects[e].kind # "assign"

\* what env_assign(name, value) gives on the Environment as it is: nothing changed
\* and false for a name that is absent or const, else true and only the value of
\* that binding replaced
EnvAssignContract ==
    \A name \in Names, value \in Values :
        LET r == env_assign(parser.env, name, value)
            i == env_find(parser.env, name)
        IN  IF i = 0 \/ parser.env[i].is_const
            THEN r = [ok |-> FALSE, env |-> parser.env]
            ELSE /\ r.ok
                 /\ Len(r.env) = Len(parser.env)
                 /\ \A k \in 1..Len(r.env) :
                        /\ r.env[k].name = parser.env[k].name
                        /\ r.env[k].is_const = parser.env[k].is_const
                        /\ r.env[k].value = (IF k = i THEN value ELSE parser.env[k].value)

\* an assignment statement to a name that is absent or const changes no binding
UndeclaredKept ==
    LET i == env_find(parser.env, parser.previous_token.lexeme)
    IN  (AssignmentStatement /\ (i = 0 \/ parser.env[i].is_const)) =>
            (parser'.env = parser.env /\ parser'.effects = parser.effects)

\* C26: env_assign(name, v) returns false and leaves every binding (names, values,
\* const flags, order, number) as it was when name is absent or bound const;
\* otherwise it replaces the value of that binding only and returns true.  An
\* assignment statement to an undeclared name therefore creates no binding.
C26_EnvAssign == [][EnvAssignContract /\ UndeclaredKept]_vars

\* x = 1; has run with x undeclared, next to a const binding of another name
C26_Witness ==
    /\ parser.val = make_int(1)
    /\ parser.previous_token.type = "SEMICOLON"
    /\ parser.effects = << >>
    /\ parser.env = <<[name |-> V_i, value |-> make_int(1), is_const |-> TRUE]>>


\* what the programs of UndefinedReads do when x reads as Int 0
UndefinedEffects ==
    <<(<<Eff("print", << >>, 0), Eff("print", << >>, 9)>>),
      (<<Eff("define", V_i, 1), Eff("print", << >>, 1)>>),
      (<<Eff("print", << >>, 2)>>)>>

\* C27: reading an identifier that has no binding, while executing, yields Int 0,
\* records no error (had_error and panic_mode stay false), creates no binding, and
\* the statement around it completes as usual.
C27_UndefinedReadsZero ==
    \A k \in 1..Len(UndefinedReads) :
        token_list = UndefinedReads[k] =>
            /\ ~Aborted
            /\ ~parser.had_error
            /\ ~parser.panic_mode
            /\ parser.errors = << >>
            /\ env_find(parser.env, V_x) = 0
            /\ IsPrefix(parser.effects, UndefinedEffects[k])
            /\ pc = "done" =>
                  /\ parser.effects = UndefinedEffects[k]
                  /\ parser.current_token = EOFToken

C27_Witness ==
    /\ token_list = UndefinedReads[2]
    /\ pc = "done"
    /\ parser.env = <<[name |-> V_i, value |-> make_int(1), is_const |-> FALSE]>>


-----------------------------------------------------------------------------
(* Errors. *)

\* C28: a % 0 with Int operands never aborts the run: like a division by zero it
\* gives a safe default value and the run goes on to its end.
C28_RemainderByZero ==
    \A a \in (-MaxN)..MaxN : token_list = BinaryProg(5, a, 0) => pc # "crashed"

\* error lines and returns of synchronize alternate, an error line first: there is
\* one more line than returns while panic_mode is set, and as many when it is not
ErrorsAlternate ==
    Len(parser.errors) = parser.synchronized + (IF parser.panic_mode THEN 1 ELSE 0)

\* error_at called while panic_mode is set changes nothing
ErrorAtSuppressed ==
    parser.panic_mode =>
        error_at(parser, parser.current_token, "Expect expression.") = parser

\* statement() returns with panic_mode clear
StatementReturnsCalm ==
    (pc = "running" /\ Top.fn = "statement" /\ Len(stack') < Len(stack)
        /\ pc' \in {"running", "done"})
        => ~parser'.panic_mode

\* C29: between an error line and the next return of synchronize no other error
\* line is written (error_at called while panic_mode is set changes nothing), and
\* panic_mode is false whenever statement() returns.
C29_PanicMode == [][ErrorsAlternate' /\ ErrorAtSuppressed' /\ StatementReturnsCalm]_vars

\* print ( ;  let = 5 ;  print(9);  has run: two error lines, two resynchronizations
C29_Witness ==
    /\ token_list = ErrorProg(1, 2)
    /\ pc = "done"
    /\ Len(parser.errors) = 2
    /\ parser.synchronized = 2
    /\ ~parser.panic_mode

\* C30: a syntax error in the body of a while, for or do-while loop is written to
\* the error channel once, not once per iteration or replay of the body.
C30_ErrorWrittenOnce ==
    \A kind \in LoopKinds, N \in 0..MaxN :
        token_list = ErrorLoopProg(kind, N) => Len(parser.errors) <= 1


-----------------------------------------------------------------------------
(* The cursor after a statement. *)

-----------------------------------------------------------------------------
(* Diagnostics, operators and the scanner. *)

\* C31: errors are never dropped silently: when statement() is entered at a token
\* that can begin no statement (a NUMBER, a ')', an INVALID token) a diagnostic is
\* recorded (had_error set, an error line written) before the token is skipped.
C31_NoSilentSkip ==
    \A k \in 1..Len(Unstartable) :
        (token_list = SkipProg(k) /\ pc = "done") =>
            (parser.had_error /\ parser.errors # << >>)


\* what print(a op1 b op2 c) prints when the chain is grouped by precedence and
\* to the left
ChainValue(k, a, b, c) ==
    IF k = 1 THEN make_int((a * b) + c)
    ELSE IF k = 2 THEN make_int((a - b) - c)
    ELSE make_bool(a + b < c)

\* C32: the binary operators group by precedence and to the left: a * b + c is
\* (a * b) + c, a - b - c is (a - b) - c, a + b < c compares a + b with c and
\* a + b * c is a + (b * c); the arithmetic of Int operands gives an Int and
\* the comparison a Bool.
C32_PrecedenceChain ==
    /\ \A k \in 1..Len(ChainOps), a \in 0..MaxN, b \in 0..MaxN, c \in 0..MaxN :
           token_list = ChainProg(k, a, b, c) =>
               /\ ~Aborted
               /\ ~parser.had_error
               /\ pc = "done" =>
                      parser.effects = <<[kind |-> "print", name |-> << >>,
                                          value |-> ChainValue(k, a, b, c),
                                          executing |-> TRUE]>>
    /\ \A a \in 1..MaxN, b \in 1..MaxN, c \in 1..MaxN :
           (token_list = SumProductProg(a, b, c) /\ pc = "done") =>
               parser.effects[1].value = make_int(a + (b * c))

C32_Witness ==
    /\ token_list = ChainProg(2, 3, 1, 1)
    /\ pc = "done"
    /\ parser.effects = <<Eff("print", << >>, 1)>>

\* the character the backslash escape \c denotes
Denoted(c) == IF c = "n" THEN NL ELSE IF c = "t" THEN TAB ELSE IF c = "r" THEN CR ELSE c

\* C33: the string literal "\c" scans to one STRING_LITERAL token whose
\* normalized lexeme is the newline for n, the tab for t, the carriage return
\* for r, and the character c itself for any other c.
C33_StringEscapes ==
    \A c \in EscapeLetters :
        (lexer.source = <<DQ, BS, c, DQ>> /\ pc = "written") =>
            /\ Len(hist) = 1
            /\ hist[1].type = "STRING_LITERAL"
            /\ hist[1].lexeme = <<Denoted(c)>>

\* C34: a block comment the source does not close is scanned without an error
\* state, the two-character source /* included: no text length the scanner
\* computes is negative, the scan yields exactly one token, a COMMENT whose
\* raw text is the rest of the input, and then the end of input.
C34_UnterminatedComment ==
    \A s \in Unterminated :
        lexer.source = s =>
            /\ ~lexer.ub
            /\ pc # "crashed"
            /\ pc = "written" =>
                   /\ Len(hist) = 1
                   /\ hist[1].type = "COMMENT"
                   /\ hist[1].raw = s

\* the first IDENTIFIER_MAX_LENGTH characters of a text
Cut(str) ==
    IF Len(str) > IDENTIFIER_MAX_LENGTH THEN SubSeq(str, 1, IDENTIFIER_MAX_LENGTH) ELSE str

\* C35: the token of an identifier has for lexeme the raw text in lower case
\* cut to 31 characters and for raw text the spelling of the source; so in
\* let r1 = 5; print(r2); the name r2 reads the binding of r1, and prints 5,
\* exactly when r1 and r2 agree on their first 31 characters without regard
\* to case, and reads no binding, and prints 0, otherwise.
C35_IdentifierTruncated ==
    \A r1 \in LongNames, r2 \in LongNames :
        token_list = AliasProg(r1, r2) =>
            /\ token_list[2] = Tok("IDENTIFIER", Cut(str_to_lower(r1)))
            /\ Len(token_list[2].lexeme) <= IDENTIFIER_MAX_LENGTH
            /\ NameToken[r1].raw = r1
            /\ ~Aborted
            /\ pc = "done" =>
                   parser.effects =
                       <<Eff("define", Cut(str_to_lower(r1)), 5),
                         Eff("print", << >>,
                             IF Cut(str_to_lower(r1)) = Cut(str_to_lower(r2)) THEN 5 ELSE 0)>>

\* aaa..abc is defined and read as aaa..aBd: the binding is the same
C35_Witness ==
    /\ token_list = AliasProg(A30 \o <<"b", "c">>, A30 \o <<"B", "d">>)
    /\ pc = "done"
    /\ Len(parser.env) = 1
    /\ Len(parser.env[1].name) = IDENTIFIER_MAX_LENGTH
    /\ parser.effects[2] = Eff("print", << >>, 5)

\* the truth of the left operands 0, 1, 2, true, false and of the right
\* operands x++ and ++x when x is 0
LeftTruth == <<FALSE, TRUE, TRUE, TRUE, FALSE>>
RightTruth == <<FALSE, TRUE>>

\* what LogicProg does: the right operand is evaluated, so x becomes 1, whatever
\* the left operand is
LogicEffects(op, l, r) ==
    <<Eff("define", V_x, 0), Eff("assign", V_x, 1),
      [kind |-> "print", name |-> << >>,
       value |-> make_bool(IF op = 1 THEN LeftTruth[l] /\ RightTruth[r]
                           ELSE LeftTruth[l] \/ RightTruth[r]),
       executing |-> TRUE],
      Eff("print", << >>, 1)>>

\* C36: && and || evaluate both operands: the increment in the right operand
\* is applied whatever the left operand is, and the result is the Bool that
\* is the conjunction, or the disjunction, of the truth of the two operands.
C36_NoShortCircuit ==
    \A op \in 1..Len(LogicOps), l \in 1..Len(Lefts), r \in 1..Len(Rights) :
        token_list = LogicProg(op, l, r) =>
            /\ ~Aborted
            /\ IsPrefix(parser.effects, LogicEffects(op, l, r))
            /\ pc = "done" => parser.effects = LogicEffects(op, l, r)

\* false && x++ and true || ++x have incremented x
C36_Witness ==
    /\ token_list \in {LogicProg(1, 5, 1), LogicProg(2, 4, 2)}
    /\ pc = "done"
    /\ parser.effects[2] = Eff("assign", V_x, 1)
    /\ parser.effects[4] = Eff("print", << >>, 1)

\* the values of !0, !5, !true and !false
NotValues == <<make_int(0), make_int(5), make_bool(FALSE), make_bool(TRUE)>>

\* what NotProg(k) does: it prints the value of !e, then 1 when that value is
\* truthy and 2 when it is not
NotEffects(k) ==
    <<[kind |-> "print", name |-> << >>, value |-> NotValues[k], executing |-> TRUE],
      Eff("print", << >>, IF truthy(NotValues[k]) THEN 1 ELSE 2)>>

\* C37: ! inverts a Bool and leaves a value of another type as it is: !true is
\* false and !false is true, but !0 is Int 0 and !5 is Int 5, so that if (!0)
\* takes the else branch and if (!5) the then branch.
C37_NotOnlyInvertsBool ==
    \A k \in 1..Len(NotOperands) :
        token_list = NotProg(k) =>
            /\ ~Aborted
            /\ IsPrefix(parser.effects, NotEffects(k))
            /\ pc = "done" => parser.effects = NotEffects(k)

\* print(!5) has printed Int 5 and if (!5) has taken the then branch
C37_Witness ==
    /\ token_list = NotProg(2)
    /\ pc = "done"
    /\ parser.effects = <<Eff("print", << >>, 5), Eff("print", << >>, 1)>>

\* C38: a statement() that returns leaves parser->executing as its call found
\* it, whatever the statement is, in the executing parse and in the dry one.
C38_ExecutingRestored ==
    [][(/\ pc = "running"
        /\ Top.fn = "statement"
        /\ Len(stack') < Len(stack)
        /\ pc' \in {"running", "done"})
       => parser'.executing = Top.entry_exec]_vars

\* a statement() called with executing false has returned, and so has one
\* called with executing true whose loop skipped its body on the way out
C38_Witness ==
    /\ token_list = GuardedLoopProg("while", 0, 1)
    /\ pc = "done"
    /\ hist.phase = "exec"
    /\ parser.executing

\* current_index - 2 is an index that jump_to can take, at most the length of
\* the list, and jump_to to it makes the current token, and the one after it,
\* what they are in p
Replayable(p) ==
    /\ p.current_index - 2 \in 0..count
    /\ jump_to(p, p.current_index - 2).current_token = p.current_token
    /\ jump_to(p, p.current_index - 2).next_token = p.next_token

\* the parser of a for_statement about to begin when it saves cond_loc
AtCondLoc ==
    for_initializer(consume(enter_node(parser, "ForStatement"),
                            "LEFT_PAREN", "Expect '(' after 'for'."))

\* C39: where while_statement and do_while_statement save loop_start, and
\* for_statement saves cond_loc and, in its first pass, inc_loc, the value
\* current_index - 2 is the index of the current token: jump_to to it makes
\* that token current again, also at the last token and at the end of input.
C39_ReplayPosition ==
    (pc = "running" /\ Top.at = "begin") =>
        /\ Top.fn \in {"while_statement", "do_while_statement"} => Replayable(parser)
        /\ Top.fn = "for_statement" =>
               (Replayable(AtCondLoc) /\ Replayable(for_condition(AtCondLoc)))

\* the trie after each group of calls of trie_add in initialize_keywords
TrieStages == {trie_create, contextual_keywords, token_mappings, reserved_words,
               initialize_keywords}

\* no node was written outside the table, and each transition of a node of
\* the table is -1 or the index of a node of the table
TrieBuilt ==
    \A t \in TrieStages :
        /\ ~t.ub
        /\ t.node_count <= TRIE_MAX_STATES
        /\ Len(t.nodes) = t.node_count
        /\ \A s \in 1..t.node_count, i \in 0..25 :
               t.nodes[s].transitions[i] \in (-1)..(t.node_count - 1)

\* C40: initialize_keywords never has more than TRIE_MAX_STATES nodes: each
\* node trie_add writes is inside the table, each transition of the trie it
\* builds is -1 or an index below node_count, and so the walk of the scanner
\* over any run of letters stays at -1 or inside the table.
C40_TrieInsideTable ==
    /\ TrieBuilt
    /\ \A k \in 1..Len(hist) :
           IsRun(hist[k]) =>
               trie_walk(initialize_keywords, str_to_lower(SelectSeq(hist[k].raw, is_letter)),
                         0, 0).state \in (-1)..(initialize_keywords.node_count - 1)

\* the word while has been scanned: its walk ends in a node of the table
C40_Witness ==
    /\ pc = "written"
    /\ lexer.source = W_while
    /\ Len(hist) = 1
    /\ trie_walk(initialize_keywords, W_while, 0, 0).state \in
           1..(initialize_keywords.node_count - 1)
    /\ initialize_keywords.node_count > Len(KeywordTable)
=============================================================================
